---- MODULE Spec2Model ----
(***************************************************************************)
(* System Services bot: the Render webhook pipeline of index.js            *)
(* (production draft, lines 1131-1771): verifyRenderWebhook, the           *)
(* POST /render-webhook handler, dispatchRenderEventToGuild,               *)
(* findSendableChannel and performAutoSetup; the settings store; the       *)
(* command listeners and performAutoSetup of the earlier drafts.           *)
(*                                                                         *)
(* SpecVerify   one call of verifyRenderWebhook on arbitrary inputs        *)
(* SpecDispatch one call of dispatchRenderEventToGuild, await by await     *)
(* Spec         the handler of POST /render-webhook serving requests       *)
(* SpecResolve  one call of findSendableChannel on arbitrary caches        *)
(* SpecSetup    one run of performAutoSetup in which every step can fail   *)
(* SpecSetupFair  the same, every awaited call settling in the end         *)
(* SpecRerun    runs of performAutoSetup one after the other on one guild  *)
(* SpecOverlap  two runs of performAutoSetup that overlap on one guild     *)
(* SpecFair     the handler, every awaited send settling in the end        *)
(* SpecLifetime the handler serving one request after the other            *)
(* SpecSettings the load and the writers of guildSettings.json             *)
(* SpecCommands the messageCreate listeners on a prefixed message          *)
(* SpecDraft    one run of performAutoSetup of the mega-bot draft          *)
(*                                                                         *)
(* JavaScript strings are modelled as sequences of one-character strings,  *)
(* Buffers as sequences of byte values.                                    *)
(***************************************************************************)
EXTENDS Integers, Sequences, FiniteSets, TLC

VARIABLES
  vSecret,        \* verifier run: process.env.RENDER_WEBHOOK_SECRET
  vBody,          \* verifier run: req.rawBody
  vHeader,        \* verifier run: req.headers['x-render-signature']
  vFault,         \* verifier run: which crypto call raises, if any
  vCalled,        \* verifier run: verifyRenderWebhook has returned or raised
  vResult,        \* verifier run: its outcome
  secret,         \* process.env.RENDER_WEBHOOK_SECRET of the serving process
  channels,       \* guild -> names of the text channels in guild.channels.cache
  reqs,           \* request -> the handler's position and locals
  sends,          \* every channel.send issued, with the request it was issued for
  attempts,       \* request -> guilds dispatchRenderEventToGuild was called for
  secretWarnings, \* number of 'RENDER_WEBHOOK_SECRET not configured' warnings
  rCache,         \* resolver run: guild.channels.cache, in iteration order
  rSaved,         \* resolver run: guildSettings[guild.id]?.renderConsoleLogsChannelId
  rCalled,        \* resolver run: findSendableChannel has returned
  rResult,        \* resolver run: the channel it returned, or null
  gCache,         \* provisioned guild: guild.channels.cache, in iteration order
  gHookTarget,    \* provisioned guild: where a webhook can be created
  gRoles,         \* provisioned guild: roles named 'System Services Manager'
  gHooks,         \* provisioned guild: webhooks named 'System Services'
  guildSettings,  \* guild -> its record of the in-memory guildSettings
  settingsStore,  \* guild -> its record of guild-settings.json
  faults,         \* the conditions that can go wrong in this behaviour
  runsLeft,       \* runs of performAutoSetup still to be started
  run,            \* the position and locals of the run of performAutoSetup
  other,          \* the locals of a second run, suspended at an await
  fileKind,       \* what guildSettings.json is: missing, unparsable, ...
  proc,           \* the process: up or down, and its last settings operation
  cmd,            \* the prefixed message being handled, and what came of it
  dRun            \* the run of performAutoSetup of the mega-bot draft

verifyVars == <<vSecret, vBody, vHeader, vFault, vCalled, vResult>>
webVars == <<secret, channels, reqs, sends, attempts, secretWarnings>>
resolveVars == <<rCache, rSaved, rCalled, rResult>>
setupVars == <<gCache, gHookTarget, gRoles, gHooks, guildSettings,
               settingsStore, faults, runsLeft, run, other>>
storeVars == <<fileKind, proc>>
cmdVars == <<cmd>>
draftVars == <<dRun>>
vars == <<verifyVars, webVars, resolveVars, setupVars, storeVars, cmdVars,
          draftVars>>

----------------------------------------------------------------------------
(* Bounds of the model *)

DigestLen == 2      \* hex digits of the modelled digest (64 for SHA-256)
MaxBodyLen == 2     \* bytes of a raw request body
MaxJunkLen == 1     \* characters appended to a header after a '='
NumGuilds == 2      \* guilds in client.guilds.cache
MaxReq == 1         \* webhook requests in flight at once
MaxChannels == 2    \* channels in the cache of the guild a resolver run is for
MaxRuns == 2        \* sequential runs of performAutoSetup on one guild

----------------------------------------------------------------------------
(* Strings *)

Digits == <<"0", "1", "2", "3", "4", "5", "6", "7", "8", "9">>
UpperAZ == <<"A", "B", "C", "D", "E", "F", "G", "H", "I", "J", "K", "L", "M",
             "N", "O", "P", "Q", "R", "S", "T", "U", "V", "W", "X", "Y", "Z">>
LowerAZ == <<"a", "b", "c", "d", "e", "f", "g", "h", "i", "j", "k", "l", "m",
             "n", "o", "p", "q", "r", "s", "t", "u", "v", "w", "x", "y", "z">>

IndexOf(seq, c) == CHOOSE i \in 1..Len(seq) : seq[i] = c
InSeq(seq, c) == \E i \in 1..Len(seq) : seq[i] = c

\* String.prototype.toLowerCase, one character
LowerChar(c) == IF InSeq(UpperAZ, c) THEN LowerAZ[IndexOf(UpperAZ, c)] ELSE c

\* String.prototype.toLowerCase
ToLowerCase(s) == [i \in 1..Len(s) |-> LowerChar(s[i])]

\* String.prototype.startsWith
StartsWith(s, p) == Len(s) >= Len(p) /\ SubSeq(s, 1, Len(p)) = p

\* String.prototype.includes
Includes(s, w) ==
  \E i \in 1..(Len(s) - Len(w) + 1) : SubSeq(s, i, i + Len(w) - 1) = w

\* String.prototype.split with a one-character separator: the pieces in order
RECURSIVE Split(_, _)
Split(s, sep) ==
  IF \A i \in 1..Len(s) : s[i] # sep THEN <<s>>
  ELSE LET k == CHOOSE i \in 1..Len(s) :
                  s[i] = sep /\ \A j \in 1..(i - 1) : s[j] # sep
       IN <<SubSeq(s, 1, k - 1)>> \o Split(SubSeq(s, k + 1, Len(s)), sep)

\* The UTF-8 encoding of one character: Buffer.from(str, 'utf8')
Utf8Char(c) ==
  IF InSeq(Digits, c) THEN <<47 + IndexOf(Digits, c)>>
  ELSE IF InSeq(UpperAZ, c) THEN <<64 + IndexOf(UpperAZ, c)>>
  ELSE IF InSeq(LowerAZ, c) THEN <<96 + IndexOf(LowerAZ, c)>>
  ELSE IF c = "=" THEN <<61>>
  ELSE IF c = "_" THEN <<95>>
  ELSE <<195, 169>>    \* the only other character of the model, U+00E9

RECURSIVE Utf8(_)
Utf8(s) == IF s = <<>> THEN <<>> ELSE Utf8Char(Head(s)) \o Utf8(Tail(s))

----------------------------------------------------------------------------
(* crypto *)

HexDigits == <<"0", "1", "2", "3", "4", "5", "6", "7",
               "8", "9", "a", "b", "c", "d", "e", "f">>

RECURSIVE Pow16(_)
Pow16(n) == IF n = 0 THEN 1 ELSE 16 * Pow16(n - 1)

\* hmac.digest('hex'): lowercase hex, most significant digit first, fixed width
HexEncode(n, width) ==
  [i \in 1..width |-> HexDigits[((n \div Pow16(width - i)) % 16) + 1]]

RECURSIVE Absorb(_, _)
Absorb(h, bytes) ==
  IF bytes = <<>> THEN h
  ELSE Absorb((h * 31 + Head(bytes) + 1) % Pow16(DigestLen), Tail(bytes))

\* crypto.createHmac('sha256', key).update(body).digest('hex'): a keyed digest
\* of fixed width, a deterministic function of the key and of the body
HmacSha256Hex(key, body) ==
  HexEncode(Absorb(Absorb(Absorb(7, key), <<255>>), body), DigestLen)

\* crypto.timingSafeEqual: raises on buffers of different lengths
TimingSafeEqual(a, b) == [raised |-> Len(a) # Len(b), value |-> a = b]

----------------------------------------------------------------------------
(* verifyRenderWebhook *)

Sha256Prefix == <<"s", "h", "a", "2", "5", "6", "=">>

Returned(b) == [raised |-> FALSE, value |-> b]
Raised == [raised |-> TRUE, value |-> FALSE]

\* `!secret`: the environment variable is unset or the empty string
\* (variants: the test inverted; only an unset variable counted as missing)
SecretMissingInverted(sec) == sec.set /\ sec.val # <<>>
SecretMissingUnsetOnly(sec) == ~sec.set
SecretMissing(sec) == ~sec.set \/ sec.val = <<>>

\* (req.headers[VERIFY_HEADER] || '').toString()
HeaderSig(header) == IF header.present THEN header.val ELSE <<>>

\* headerSig.startsWith('sha256=') ? headerSig.split('=')[1] : headerSig
\* (variant: the prefix is not stripped)
HeaderNormalizedUnstripped(headerSig) == headerSig
HeaderNormalized(headerSig) ==
  IF StartsWith(headerSig, Sha256Prefix) THEN Split(headerSig, "=")[2]
  ELSE headerSig

\* the body of the try block; fault = "hmac" is createHmac, update or digest
\* raising
ComputeAndCompare(sec, rawBody, headerSig, fault) ==
  IF fault = "hmac" THEN Raised
  ELSE LET digest == HmacSha256Hex(Utf8(sec.val), rawBody)
           a == Utf8(digest)
           b == Utf8(HeaderNormalized(headerSig))
       IN IF Len(a) # Len(b) THEN Returned(FALSE) ELSE TimingSafeEqual(a, b)

\* catch (err) { console.warn(...); return false; }
\* (variant: the exception propagates)
CatchVerifyRethrow(outcome) == outcome
CatchVerify(outcome) == IF outcome.raised THEN Returned(FALSE) ELSE outcome

verifyRenderWebhook(sec, rawBody, header, fault) ==
  IF SecretMissing(sec) THEN Returned(TRUE)
  ELSE IF HeaderSig(header) = <<>> THEN Returned(FALSE)
  ELSE CatchVerify(ComputeAndCompare(sec, rawBody, HeaderSig(header), fault))

----------------------------------------------------------------------------
(* Inputs of a verifier run *)

NoSecret == [set |-> FALSE, val |-> <<>>]
Secrets ==
  {NoSecret} \cup {[set |-> TRUE, val |-> v] : v \in {<<>>, <<"k">>, <<"k", "2">>}}

RECURSIVE SeqsUpTo(_, _)
SeqsUpTo(S, n) ==
  IF n = 0 THEN {<<>>}
  ELSE SeqsUpTo(S, n - 1) \cup
       {<<x>> \o s : x \in S, s \in {t \in SeqsUpTo(S, n - 1) : Len(t) = n - 1}}

Bodies == SeqsUpTo({0, 1}, MaxBodyLen)

Faults == {"none", "hmac"}

\* the digest the sender computes for sec and body
ExpectedDigest(sec, body) == HmacSha256Hex(Utf8(sec.val), body)

\* d with its i-th character replaced by c
Replace(d, i, c) == [d EXCEPT ![i] = c]

\* header values built around a digest d: d itself, d with one character
\* changed, d cut short, d with characters before or after it
Around(d) ==
  {d, SubSeq(d, 1, Len(d) - 1), <<"=">> \o d, <<"0">> \o d}
    \cup {Replace(d, i, c) : i \in 1..Len(d), c \in {"0", "f", "F", "é"}}
    \cup {d \o j : j \in SeqsUpTo({"0", "="}, MaxJunkLen)}
    \cup {d \o <<"=">> \o j : j \in SeqsUpTo({"0", "="}, MaxJunkLen)}

HeaderPrefixes ==
  {<<>>, Sha256Prefix, <<"S", "H", "A", "2", "5", "6", "=">>,
   <<"s", "h", "a", "2", "5", "6">>}

\* the headers a request for body may carry: built around the digest of the
\* body under the configured secret, of another body, and under another key
HeaderValues(sec, body) ==
  {p \o t : p \in HeaderPrefixes,
            t \in {<<>>} \cup Around(ExpectedDigest(sec, body))
                        \cup Around(HmacSha256Hex(Utf8(sec.val), body \o <<1>>))
                        \cup Around(HmacSha256Hex(Utf8(<<"x">>), body))}

Headers(sec, body) ==
  {[present |-> FALSE, val |-> <<>>]}
    \cup {[present |-> TRUE, val |-> v] : v \in HeaderValues(sec, body)}

----------------------------------------------------------------------------
(* dispatchRenderEventToGuild *)

Guilds == 1..NumGuilds
Requests == 1..MaxReq

StatusName == "render-status"
ErrorsName == "render-errors"
ConsoleName == "render-console-logs"
ChannelNames == {StatusName, ErrorsName, ConsoleName}
GeneralName == "general"    \* a channel name the bot gives no meaning to

Unknown == <<"u", "n", "k", "n", "o", "w", "n">>
FailWord == <<"f", "a", "i", "l">>
ErrorWord == <<"e", "r", "r", "o", "r">>
CrashWord == <<"c", "r", "a", "s", "h">>

\* A payload is req.body: kind says what payload.type is: "absent" (no type,
\* or a falsy one), "string", or "other" (a truthy value that is no string,
\* such as a number)
NoPayload == [kind |-> "absent", type |-> <<>>]

\* payload.type || 'unknown', for a type that is a string or falsy
EventType(payload) ==
  IF payload.kind = "string" /\ payload.type # <<>> THEN payload.type
  ELSE Unknown

\* eventType.toLowerCase() raises a TypeError when eventType is no string
ClassifyRaises(payload) == payload.kind = "other"

\* isError: eventType.toLowerCase().includes('fail') || ... 'error' || ... 'crash'
\* (variant: without toLowerCase)
IsErrorCaseSensitive(eventType) ==
  Includes(eventType, FailWord) \/ Includes(eventType, ErrorWord)
    \/ Includes(eventType, CrashWord)
IsError(eventType) ==
  \/ Includes(ToLowerCase(eventType), FailWord)
  \/ Includes(ToLowerCase(eventType), ErrorWord)
  \/ Includes(ToLowerCase(eventType), CrashWord)

\* guild.channels.cache.find(c => c.name === name && c.type === GuildText)
HasChannel(g, name) == name \in channels[g]

\* the channel the embed goes to, "none" when no branch sends it
\* (variant: render-status is preferred for every event)
PrimaryTargetStatusFirst(isError, hasStatus, hasErrors, hasConsole) ==
  IF hasStatus THEN StatusName
  ELSE IF isError /\ hasErrors THEN ErrorsName
  ELSE IF ~isError /\ hasConsole THEN ConsoleName ELSE "none"
PrimaryTarget(isError, hasStatus, hasErrors, hasConsole) ==
  IF isError
  THEN IF hasErrors THEN ErrorsName
       ELSE IF hasStatus THEN StatusName ELSE "none"
  ELSE IF hasStatus THEN StatusName
       ELSE IF hasConsole THEN ConsoleName ELSE "none"

Message(r, g, ch, kind) == [req |-> r, guild |-> g, channel |-> ch, kind |-> kind]

\* The locals of one handler run.  verified: what verifyRenderWebhook
\* returned.  failed: the dispatches that returned false so far.
\* pc: "idle" (not yet received), "loop" (at the head of the for loop over
\* the guilds), "awaitPrimary" / "awaitConsole" (inside
\* dispatchRenderEventToGuild for guild idx, awaiting the send of the embed /
\* of the plain-text block), "done" (response sent).
IdleReq ==
  [pc |-> "idle", verified |-> FALSE, payload |-> NoPayload, idx |-> 0,
   isError |-> FALSE, hasConsole |-> FALSE, target |-> "none",
   failed |-> 0, resp |-> 0]

\* dispatchRenderEventToGuild has returned ok for guild rec.idx: the handler's
\* await resumes and the for loop goes on to the next guild
\* (variant: the loop stops at the first dispatch that returns false)
DispatchReturnedBreakOnFailure(rec, ok) ==
  [rec EXCEPT !.pc = "loop",
              !.idx = IF ok THEN @ + 1 ELSE NumGuilds + 1,
              !.failed = IF ok THEN @ ELSE @ + 1]
DispatchReturned(rec, ok) ==
  [rec EXCEPT !.pc = "loop", !.idx = @ + 1,
              !.failed = IF ok THEN @ ELSE @ + 1]

\* dispatchRenderEventToGuild(guild, payload) up to its first await
DispatchStart(r) ==
  LET rec == reqs[r]
      g == rec.idx
      isError == IsError(EventType(rec.payload))
      hasConsole == HasChannel(g, ConsoleName)
      target == PrimaryTarget(isError, HasChannel(g, StatusName),
                              HasChannel(g, ErrorsName), hasConsole)
      locals == [rec EXCEPT !.isError = isError, !.hasConsole = hasConsole,
                            !.target = target]
  IN /\ attempts' = [attempts EXCEPT ![r] = @ \cup {g}]
     /\ IF ClassifyRaises(rec.payload)
        THEN \* TypeError, caught at the end of the function: return false
             /\ reqs' = [reqs EXCEPT ![r] = DispatchReturned(rec, FALSE)]
             /\ sends' = sends
        ELSE IF target # "none"
        THEN /\ reqs' = [reqs EXCEPT ![r] = [locals EXCEPT !.pc = "awaitPrimary"]]
             /\ sends' = sends \cup {Message(r, g, target, "embed")}
        ELSE IF hasConsole
        THEN /\ reqs' = [reqs EXCEPT ![r] = [locals EXCEPT !.pc = "awaitConsole"]]
             /\ sends' = sends \cup {Message(r, g, ConsoleName, "block")}
        ELSE /\ reqs' = [reqs EXCEPT ![r] = DispatchReturned(locals, TRUE)]
             /\ sends' = sends

\* what the function does once the send of the embed has settled
AfterPrimary(rec, ok) == ok /\ rec.hasConsole

\* the awaited send of the embed resolves (ok) or rejects
PrimaryDone(r) ==
  /\ reqs[r].pc = "awaitPrimary"
  /\ \E ok \in BOOLEAN :
       LET rec == reqs[r] IN
       IF AfterPrimary(rec, ok)
       THEN \* `if (consoleChannel) await consoleChannel.send(formatBlock(...))`
            /\ reqs' = [reqs EXCEPT ![r] = [rec EXCEPT !.pc = "awaitConsole"]]
            /\ sends' = sends \cup {Message(r, rec.idx, ConsoleName, "block")}
       ELSE \* `return true`, or the catch: `return false`
            /\ reqs' = [reqs EXCEPT ![r] = DispatchReturned(rec, ok)]
            /\ sends' = sends
  /\ UNCHANGED <<secret, channels, attempts, secretWarnings>>
  /\ UNCHANGED <<verifyVars, resolveVars, setupVars, storeVars, cmdVars, draftVars>>

\* the awaited send of the plain-text block resolves (ok) or rejects
ConsoleDone(r) ==
  /\ reqs[r].pc = "awaitConsole"
  /\ \E ok \in BOOLEAN :
       reqs' = [reqs EXCEPT ![r] = DispatchReturned(reqs[r], ok)]
  /\ UNCHANGED <<secret, channels, sends, attempts, secretWarnings>>
  /\ UNCHANGED <<verifyVars, resolveVars, setupVars, storeVars, cmdVars, draftVars>>

----------------------------------------------------------------------------
(* app.post('/render-webhook') *)

\* `if (!verifyRenderWebhook(req))`
\* (variant: the verdict is ignored)
RejectsIgnoringVerdict(outcome) == FALSE
Rejects(outcome) == ~outcome.value

\* the status sent once the for loop is over
\* (variant: 500 when a dispatch returned false)
StatusAfterLoopStrict(rec) == IF rec.failed > 0 THEN 500 ELSE 200
StatusAfterLoop(rec) == 200

\* the inputs of the requests of a run: an event with no type, a failure
\* event, an event whose type is a number
DeployFailed == <<"d", "e", "p", "l", "o", "y", "_", "f", "a", "i", "l", "e", "d">>

RequestPayloads ==
  {NoPayload, [kind |-> "string", type |-> DeployFailed],
   [kind |-> "other", type |-> <<>>]}

RequestBodies == {<<>>, <<1>>}

RequestHeaders(body) ==
  {[present |-> FALSE, val |-> <<>>]}
    \cup {[present |-> TRUE, val |-> v] :
            v \in {ExpectedDigest(secret, body),
                   Sha256Prefix \o ExpectedDigest(secret, body),
                   ExpectedDigest(secret, body \o <<1>>)}}

\* The request arrives (the raw-body middleware has filled req.rawBody and
\* req.body) and the handler runs up to the head of its loop
Handle(r) ==
  /\ reqs[r].pc = "idle"
  /\ \E body \in RequestBodies, payload \in RequestPayloads, fault \in Faults :
     \E header \in RequestHeaders(body) :
       LET outcome == verifyRenderWebhook(secret, body, header, fault) IN
       reqs' = [reqs EXCEPT ![r] =
         IF outcome.raised
         THEN \* the handler's own catch
              [@ EXCEPT !.pc = "done", !.resp = 500]
         ELSE IF Rejects(outcome)
         THEN [@ EXCEPT !.pc = "done", !.verified = outcome.value,
                        !.resp = 403]
         ELSE [@ EXCEPT !.pc = "loop", !.verified = outcome.value,
                        !.payload = payload, !.idx = 1]]
  /\ secretWarnings' = IF SecretMissing(secret) THEN secretWarnings + 1
                       ELSE secretWarnings
  /\ UNCHANGED <<secret, channels, sends, attempts>>
  /\ UNCHANGED <<verifyVars, resolveVars, setupVars, storeVars, cmdVars, draftVars>>

\* `for (const guild of client.guilds.cache.values())`: the next guild's
\* dispatch starts
LoopNext(r) ==
  /\ reqs[r].pc = "loop"
  /\ reqs[r].idx <= NumGuilds
  /\ DispatchStart(r)
  /\ UNCHANGED <<secret, channels, secretWarnings>>
  /\ UNCHANGED <<verifyVars, resolveVars, setupVars, storeVars, cmdVars, draftVars>>

\* the for loop has gone through client.guilds.cache, each dispatch awaited
\* (variant: the dispatches are not awaited)
LoopOverNotAwaited(rec) == TRUE
LoopOver(rec) == rec.idx > NumGuilds

\* the loop is over: `return res.status(200).send('OK')`
Respond(r) ==
  /\ reqs[r].pc = "loop"
  /\ LoopOver(reqs[r])
  /\ reqs' = [reqs EXCEPT ![r] =
                [@ EXCEPT !.pc = "done", !.resp = StatusAfterLoop(reqs[r])]]
  /\ UNCHANGED <<secret, channels, sends, attempts, secretWarnings>>
  /\ UNCHANGED <<verifyVars, resolveVars, setupVars, storeVars, cmdVars, draftVars>>

\* `null`, where a channel is expected
NoChannel ==
  [id |-> 0, name |-> "", type |-> "none", sendable |-> FALSE, parent |-> 0]

\* performAutoSetup: the channels it creates, in the order of its list
FailedName == "render-failed"
BotStatusName == "bot-status"
\* (variant: render-status is created first)
ChannelsToCreateStatusFirst ==
  <<StatusName, ConsoleName, ErrorsName, FailedName, BotStatusName>>
ChannelsToCreate ==
  <<ConsoleName, ErrorsName, FailedName, StatusName, BotStatusName>>
ProvisionedNames == {ChannelsToCreate[i] : i \in 1..Len(ChannelsToCreate)}

\* a guild's record of guildSettings: absent, or an object with
\* renderConsoleLogsChannelId (0: not set) and whatever else the file held
NoSettings == [present |-> FALSE, renderConsoleLogsChannelId |-> 0, extra |-> ""]

\* The locals of a run of performAutoSetup.  pc: "idle" (not called), the
\* awaited call the run is suspended at, or "done" (returned or raised).
\* idx: the position in channelsToCreate.  category: the id of `category`,
\* 0 while undefined.  created: name -> the id of created[name], 0 while
\* undefined.  managerRole: whether `managerRole` is defined.  trace: the
\* remote calls issued and settled, in order.  before: the guild and the
\* settings as the run found them.
IdleRun ==
  [pc |-> "idle", idx |-> 0, category |-> 0,
   created |-> [n \in ProvisionedNames |-> 0], managerRole |-> FALSE,
   raised |-> FALSE, logLines |-> <<>>, trace |-> <<>>,
   before |-> [cache |-> <<>>, hooks |-> 0, roles |-> 0,
               settings |-> [g \in Guilds |-> NoSettings],
               store |-> [g \in Guilds |-> NoSettings]]]

SetupIdle ==
  /\ gCache = <<>>
  /\ gHookTarget = "none"
  /\ gRoles = 0
  /\ gHooks = 0
  /\ guildSettings = [g \in Guilds |-> NoSettings]
  /\ settingsStore = [g \in Guilds |-> NoSettings]
  /\ faults = {}
  /\ runsLeft = 0
  /\ run = IdleRun
  /\ other = IdleRun

\* The process as far as the settings go.  up: the module has been loaded.
\* memNull: guildSettings is `null`.  op: the last operation on the
\* settings, writable: whether the file could be written during it,
\* value: what it stored, writes: the file writes it attempted, raised: an
\* exception left it, completed: it ran to its end.
IdleProc ==
  [up |-> FALSE, memNull |-> FALSE, op |-> "none", value |-> 0,
   writable |-> TRUE, writes |-> 0, raised |-> FALSE, completed |-> FALSE]

StoreIdle ==
  /\ fileKind = "document"
  /\ proc = IdleProc

\* A prefixed message in a guild, as one messageCreate listener sees it.
\* pc: "idle" (no message yet), "exiting" (suspended at the reply that
\* precedes process.exit) or "done".  handler: the listener.  name: the
\* command word.  hasRole: message.member has the role of that name.
\* replies: the titles of the replies sent.  raised: an exception left the
\* listener.  exited: process.exit was called.  before: the guild and the
\* settings as the message found them.
IdleCmd ==
  [pc |-> "idle", handler |-> "none", name |-> "", hasRole |-> FALSE,
   replies |-> <<>>, raised |-> FALSE, exited |-> FALSE,
   before |-> [cache |-> <<>>, roles |-> 0,
               settings |-> [g \in Guilds |-> NoSettings]]]

CmdIdle == cmd = IdleCmd

\* The locals of a run of performAutoSetup of the mega-bot draft.  pc:
\* "idle" (not called), the awaited call the run is suspended at, or "done".
\* caller: the listener that called it.  idx: the position in
\* channelsToCreate.  category: the id of `category`, 0 while undefined.
\* console: the id of created['render-console-logs'], 0 while undefined.
\* logCh: the id of `logCh`, 0 when null.  consoleBlock: logConsoleBlock
\* was called with the setup log.  returned / rejected: how the promise of
\* the run settled.  unhandled: the rejection reached no handler.
IdleDraft ==
  [pc |-> "idle", caller |-> "none", idx |-> 0, category |-> 0,
   console |-> 0, logCh |-> 0, consoleBlock |-> FALSE, returned |-> FALSE,
   rejected |-> FALSE, unhandled |-> FALSE]

DraftIdle == dRun = IdleDraft

AsideIdle == StoreIdle /\ CmdIdle /\ DraftIdle

ResolveIdle ==
  /\ rCache = <<>>
  /\ rSaved = 0
  /\ rCalled = FALSE
  /\ rResult = NoChannel

VerifyIdle ==
  /\ vSecret = NoSecret
  /\ vBody = <<>>
  /\ vHeader = [present |-> FALSE, val |-> <<>>]
  /\ vFault = "none"
  /\ vCalled = FALSE
  /\ vResult = Returned(FALSE)

Init ==
  /\ secret \in {NoSecret, [set |-> TRUE, val |-> <<"k">>]}
  /\ channels \in [Guilds -> {{}, {ConsoleName}, ChannelNames}]
  /\ reqs = [r \in Requests |-> IdleReq]
  /\ sends = {}
  /\ attempts = [r \in Requests |-> {}]
  /\ secretWarnings = 0
  /\ VerifyIdle
  /\ ResolveIdle
  /\ SetupIdle
  /\ AsideIdle

Next ==
  \E r \in Requests :
    \/ Handle(r)
    \/ LoopNext(r)
    \/ PrimaryDone(r)
    \/ ConsoleDone(r)
    \/ Respond(r)

Spec == Init /\ [][Next]_vars

\* the same, where a request that can arrive does, every awaited send
\* settles (each call of the client is bound by the timeout of its
\* transport) and the event loop runs every continuation that is ready
SpecFair == Init /\ [][Next]_vars /\ WF_vars(Next)

\* One process lifetime with one request after the other: the response of
\* request r has been sent and its connection is closed; the next request
\* takes its place.  Requests are followed until MaxWarned of them have
\* found no secret.
MaxWarned == 2

NextRequest(r) ==
  /\ reqs[r].pc = "done"
  /\ secretWarnings < MaxWarned
  /\ reqs' = [reqs EXCEPT ![r] = IdleReq]
  /\ sends' = sends \ {m \in sends : m.req = r}
  /\ attempts' = [attempts EXCEPT ![r] = {}]
  /\ UNCHANGED <<secret, channels, secretWarnings>>
  /\ UNCHANGED <<verifyVars, resolveVars, setupVars, storeVars, cmdVars, draftVars>>

NextLifetime ==
  \/ Next
  \/ \E r \in Requests : NextRequest(r)

SpecLifetime == Init /\ [][NextLifetime]_vars

----------------------------------------------------------------------------
(* dispatchRenderEventToGuild on its own: one call, for guild 1 and any
   payload, from its entry to its return *)

EventTypes ==
  {<<>>, DeployFailed, Unknown,
   <<"d", "e", "p", "l", "o", "y", "_", "l", "i", "v", "e">>,
   <<"B", "u", "i", "l", "d", "_", "E", "R", "R", "O", "R">>,
   <<"C", "r", "a", "s", "h", "e", "d">>,
   <<"F", "A", "I", "L">>,
   <<"f", "a", "i", "_", "l", "e", "d">>,
   <<"e", "r", "r", "c", "r", "a">>}

Payloads ==
  {NoPayload, [kind |-> "other", type |-> <<>>]}
    \cup {[kind |-> "string", type |-> t] : t \in EventTypes}

InitDispatch ==
  /\ secret = NoSecret
  /\ \E cs \in SUBSET (ChannelNames \cup {GeneralName}) :
       channels = [g \in Guilds |-> IF g = 1 THEN cs ELSE {}]
  /\ \E payload \in Payloads :
       reqs = [r \in Requests |->
                 IF r = 1
                 THEN [IdleReq EXCEPT !.pc = "loop", !.verified = TRUE,
                                      !.payload = payload, !.idx = 1]
                 ELSE IdleReq]
  /\ sends = {}
  /\ attempts = [r \in Requests |-> {}]
  /\ secretWarnings = 0
  /\ VerifyIdle
  /\ ResolveIdle
  /\ SetupIdle
  /\ AsideIdle

DispatchCall == reqs[1].idx = 1 /\ LoopNext(1)

NextDispatch ==
  \/ DispatchCall
  \/ PrimaryDone(1)
  \/ ConsoleDone(1)

SpecDispatch == InitDispatch /\ [][NextDispatch]_vars

----------------------------------------------------------------------------
(* The verifier on its own: one call on arbitrary inputs *)

WebIdle ==
  /\ secret = NoSecret
  /\ channels = [g \in Guilds |-> {}]
  /\ reqs = [r \in Requests |-> IdleReq]
  /\ sends = {}
  /\ attempts = [r \in Requests |-> {}]
  /\ secretWarnings = 0

InitVerify ==
  /\ vSecret \in Secrets
  /\ vBody \in Bodies
  /\ vHeader \in Headers(vSecret, vBody)
  /\ vFault \in Faults
  /\ vCalled = FALSE
  /\ vResult = Returned(FALSE)
  /\ WebIdle
  /\ ResolveIdle
  /\ SetupIdle
  /\ AsideIdle

VerifyCall ==
  /\ ~vCalled
  /\ vCalled' = TRUE
  /\ vResult' = verifyRenderWebhook(vSecret, vBody, vHeader, vFault)
  /\ UNCHANGED <<vSecret, vBody, vHeader, vFault>>
  /\ UNCHANGED <<webVars, resolveVars, setupVars, storeVars, cmdVars, draftVars>>

NextVerify == VerifyCall

SpecVerify == InitVerify /\ [][NextVerify]_vars

----------------------------------------------------------------------------
(* findSendableChannel: a channel of guild.channels.cache is a record of its
   id, name and type, of whether
   permissionsFor(guild.members.me).has(SendMessages) holds for it, and of
   the id of its parent category (0 for none) *)

TextType == "text"          \* ChannelType.GuildText
VoiceType == "voice"        \* a type that is not GuildText
CategoryType == "category"  \* ChannelType.GuildCategory

\* `ch.type === ChannelType.GuildText &&
\*    ch.permissionsFor(guild.members.me).has(SendMessages)`
\* (variant: the permission is not looked at)
SendableUnchecked(ch) == ch.type = TextType
Sendable(ch) == ch.type = TextType /\ ch.sendable

\* `cache.find(fn)`: the first channel, in iteration order, among those
\* fn holds of (hits: their positions in the cache)
Find(cache, hits) ==
  IF hits = {} THEN NoChannel
  ELSE cache[CHOOSE i \in hits : \A j \in hits : i <= j]

\* `guild.channels.cache.get(saved)`
CacheGet(cache, id) ==
  Find(cache, {i \in 1..Len(cache) : cache[i].id = id})

\* step 1: the channel of the cached id, `if (saved)` and it passes the test
CachedStep(cache, saved) ==
  IF saved # 0 /\ CacheGet(cache, saved) # NoChannel
               /\ Sendable(CacheGet(cache, saved))
  THEN CacheGet(cache, saved)
  ELSE NoChannel

\* step 2: `cache.find(c => c.name === 'render-console-logs' && ...)`
PreferredStep(cache) ==
  Find(cache, {i \in 1..Len(cache) :
                 cache[i].name = ConsoleName /\ Sendable(cache[i])})

\* step 3: the first channel of `cache.values()` that passes the test
AnyStep(cache) == Find(cache, {i \in 1..Len(cache) : Sendable(cache[i])})

findSendableChannel(cache, saved) ==
  IF CachedStep(cache, saved) # NoChannel THEN CachedStep(cache, saved)
  ELSE IF PreferredStep(cache) # NoChannel THEN PreferredStep(cache)
  ELSE AnyStep(cache)

\* The resolver on its own: one call for a guild with any cache of at most
\* MaxChannels channels and any cached id, that of a deleted channel included
ChannelShapes ==
  [name : {ConsoleName, GeneralName}, type : {TextType, VoiceType},
   sendable : BOOLEAN]

Caches ==
  UNION {{[i \in 1..n |->
             [id |-> i, name |-> f[i].name, type |-> f[i].type,
              sendable |-> f[i].sendable, parent |-> 0]] :
            f \in [1..n -> ChannelShapes]} : n \in 0..MaxChannels}

InitResolve ==
  /\ rCache \in Caches
  /\ rSaved \in 0..(MaxChannels + 1)
  /\ rCalled = FALSE
  /\ rResult = NoChannel
  /\ WebIdle
  /\ VerifyIdle
  /\ SetupIdle
  /\ AsideIdle

ResolveCall ==
  /\ ~rCalled
  /\ rCalled' = TRUE
  /\ rResult' = findSendableChannel(rCache, rSaved)
  /\ UNCHANGED <<rCache, rSaved>>
  /\ UNCHANGED <<verifyVars, webVars, setupVars, storeVars, cmdVars, draftVars>>

NextResolve == ResolveCall

SpecResolve == InitResolve /\ [][NextResolve]_vars

----------------------------------------------------------------------------
(* performAutoSetup, await by await.  A run is for guild ProvGuild; every
   awaited remote call settles in an action of its own, which also runs the
   synchronous code up to the next awaited call. *)

ProvGuild == 1

\* the outcomes of a step: it succeeds, or fails where the behaviour lets
\* that condition go wrong
Outcomes(fault) == IF fault \in faults THEN BOOLEAN ELSE {TRUE}

AllFaults ==
  {"member", "perms", "webhook", "category", "channel", "persist", "role",
   "audit", "fetch", "grant", "send"}

\* `guildSettings[guild.id]?.renderConsoleLogsChannelId`
Saved(settings, g) ==
  IF settings[g].present THEN settings[g].renderConsoleLogsChannelId ELSE 0

\* `logLines.push(...)`
Log(r, text, name) ==
  [r EXCEPT !.logLines = Append(@, [text |-> text, name |-> name])]

\* a remote call is issued and the run is suspended at its await
Issue(r, pc, call) ==
  [r EXCEPT !.pc = pc, !.trace = Append(@, <<"issue", call>>)]

\* the awaited call has resolved or rejected
Settle(r, call) == [r EXCEPT !.trace = Append(@, <<"settle", call>>)]

\* `return`
Done(r) == [r EXCEPT !.pc = "done"]

\* `const statusTarget = created['bot-status'] || findSendableChannel(guild)`
\* and the post of "Awaiting Commands"
EnterAwaiting(r, cache, saved) ==
  LET statusTarget ==
        IF r.created[BotStatusName] # 0
        THEN CacheGet(cache, r.created[BotStatusName])
        ELSE findSendableChannel(cache, saved)
  IN IF statusTarget # NoChannel THEN Issue(r, "awaiting", "awaiting")
     ELSE Done(r)

\* `const primaryLogChannel = created['render-console-logs'] ||
\*    findSendableChannel(guild)` and the post of the summary embed
EnterSummary(r, cache, saved) ==
  LET primaryLogChannel ==
        IF r.created[ConsoleName] # 0
        THEN CacheGet(cache, r.created[ConsoleName])
        ELSE findSendableChannel(cache, saved)
  IN IF primaryLogChannel # NoChannel THEN Issue(r, "embed", "summary")
     ELSE EnterAwaiting(r, cache, saved)

\* `await guild.fetchAuditLogs({ type: 28, limit: 1 })`
EnterAudit(r) == Issue(r, "audit", "fetchAuditLogs")

\* `let managerRole = guild.roles.cache.find(r => r.name === ...)`,
\* `if (!managerRole)`
\* (variant: the role is created whether or not one exists)
EnterRoleAlwaysCreate(r, roles) == Issue(r, "role", "createRole")
EnterRole(r, roles) ==
  IF roles = 0 THEN Issue(r, "role", "createRole")
  ELSE EnterAudit(Log([r EXCEPT !.managerRole = TRUE],
                      "Manager role already exists", ""))

\* the creation of channelsToCreate[i]
EnterChannel(r, i) ==
  Issue([r EXCEPT !.idx = i], "channel", ChannelsToCreate[i])

\* `parent: category ? category.id : undefined`
\* (variant: the channel is created outside every category)
ParentTopLevel(r) == 0
Parent(r) == r.category

\* the catch of a channel creation
\* (variant: the loop is left at the first failure)
AfterChannelBreakOnFailure(i, ok) ==
  IF ok THEN i + 1 ELSE Len(ChannelsToCreate) + 1
AfterChannel(i, ok) == i + 1

\* the catch of the category creation
\* (variant: the exception is not caught)
CatchCategoryRethrow(r) == [r EXCEPT !.pc = "done", !.raised = TRUE]
CatchCategory(r) == EnterChannel(Log(r, "Failed to create category", ""), 1)

\* `guildSettings[guild.id] = guildSettings[guild.id] || {};
\*  guildSettings[guild.id].renderConsoleLogsChannelId = created[...].id`
\* (variant: the record is replaced by a new object)
WriteConsoleIdFresh(rec, id) ==
  [present |-> TRUE, renderConsoleLogsChannelId |-> id, extra |-> ""]
WriteConsoleId(rec, id) ==
  [present |-> TRUE, renderConsoleLogsChannelId |-> id,
   extra |-> IF rec.present THEN rec.extra ELSE ""]

\* `let systemChannel = guild.systemChannel; if (!systemChannel)
\*  systemChannel = guild.channels.cache.find(...)`
SystemChannelFound(cache) ==
  \/ gHookTarget = "system"
  \/ /\ gHookTarget = "first"
     /\ \E i \in 1..Len(cache) : cache[i].type = TextType

EnterCategory(r) == Issue(r, "category", "createCategory")

EnterWebhook(r, cache) ==
  IF SystemChannelFound(cache) THEN Issue(r, "webhook", "createWebhook")
  ELSE EnterCategory(Log(r, "No suitable channel to create webhook.", ""))

\* performAutoSetup is called: it runs up to its first awaited call
StartRun ==
  /\ run.pc \in {"idle", "done"}
  /\ runsLeft > 0
  /\ runsLeft' = runsLeft - 1
  /\ \E meMember \in Outcomes("member"), granted \in Outcomes("perms") :
       LET saved == Saved(guildSettings, ProvGuild)
           ch == findSendableChannel(gCache, saved)
           r0 == [IdleRun EXCEPT
                    !.logLines = <<[text |-> "Guild Name", name |-> ""],
                                   [text |-> "Guild ID", name |-> ""],
                                   [text |-> "Timestamp", name |-> ""]>>,
                    !.before = [cache |-> gCache, hooks |-> gHooks,
                                roles |-> gRoles,
                                settings |-> guildSettings,
                                store |-> settingsStore]]
           aborting == Log(r0, "Failed to get bot member info; aborting setup.", "")
           warned == Log(r0, "Warning: Bot may be missing required permissions", "")
       IN run' =
            IF ~meMember
            THEN \* `await trySendLog(...); return`
                 IF ch # NoChannel THEN Issue(aborting, "abortLog", "log")
                 ELSE Done(aborting)
            ELSE IF ~granted
            THEN \* `await trySendLog(...)`, then on to the webhook
                 IF ch # NoChannel THEN Issue(warned, "warnLog", "log")
                 ELSE EnterWebhook(warned, gCache)
            ELSE EnterWebhook(r0, gCache)
  /\ UNCHANGED <<gCache, gHookTarget, gRoles, gHooks, guildSettings,
                 settingsStore, faults>>
  /\ UNCHANGED <<verifyVars, webVars, resolveVars, storeVars, cmdVars,
                 draftVars, other>>

\* the send of trySendLog settles, without a bot member: `return`
AbortLogSettles ==
  /\ run.pc = "abortLog"
  /\ \E ok \in Outcomes("send") : run' = Done(Settle(run, "log"))
  /\ UNCHANGED <<gCache, gHookTarget, gRoles, gHooks, guildSettings,
                 settingsStore, faults, runsLeft>>
  /\ UNCHANGED <<verifyVars, webVars, resolveVars, storeVars, cmdVars,
                 draftVars, other>>

\* the send of trySendLog settles, after the permission warning
WarnLogSettles ==
  /\ run.pc = "warnLog"
  /\ \E ok \in Outcomes("send") :
       run' = EnterWebhook(Settle(run, "log"), gCache)
  /\ UNCHANGED <<gCache, gHookTarget, gRoles, gHooks, guildSettings,
                 settingsStore, faults, runsLeft>>
  /\ UNCHANGED <<verifyVars, webVars, resolveVars, storeVars, cmdVars,
                 draftVars, other>>

\* `await systemChannel.createWebhook(...)` settles
WebhookSettles ==
  /\ run.pc = "webhook"
  /\ \E ok \in Outcomes("webhook") :
       /\ gHooks' = IF ok THEN gHooks + 1 ELSE gHooks
       /\ run' = EnterCategory(
                   Log(Settle(run, "createWebhook"),
                       IF ok THEN "Created webhook"
                       ELSE "Failed to create webhook", ""))
  /\ UNCHANGED <<gCache, gHookTarget, gRoles, guildSettings, settingsStore,
                 faults, runsLeft>>
  /\ UNCHANGED <<verifyVars, webVars, resolveVars, storeVars, cmdVars,
                 draftVars, other>>

\* `category = await guild.channels.create({ type: GuildCategory })` settles
CategorySettles ==
  /\ run.pc = "category"
  /\ \E ok \in Outcomes("category") :
       LET id == Len(gCache) + 1
           r == Settle(run, "createCategory")
       IN IF ok
          THEN /\ gCache' = Append(gCache,
                              [id |-> id, name |-> "System Services Status",
                               type |-> CategoryType, sendable |-> FALSE,
                               parent |-> 0])
               /\ run' = EnterChannel(
                           Log([r EXCEPT !.category = id],
                               "Created category", ""), 1)
          ELSE /\ gCache' = gCache
               /\ run' = CatchCategory(r)
  /\ UNCHANGED <<gHookTarget, gRoles, gHooks, guildSettings, settingsStore,
                 faults, runsLeft>>
  /\ UNCHANGED <<verifyVars, webVars, resolveVars, storeVars, cmdVars,
                 draftVars, other>>

\* `const ch = await guild.channels.create({ name: spec.name, ... })`
\* settles; after the last one the console channel's id is saved and the
\* role is looked up
ChannelSettles ==
  /\ run.pc = "channel"
  /\ \E ok \in Outcomes("channel"), written \in Outcomes("persist") :
       LET name == ChannelsToCreate[run.idx]
           id == Len(gCache) + 1
           r0 == Settle(run, name)
           r == IF ok
                THEN Log([r0 EXCEPT !.created[name] = id],
                         "Created channel", name)
                ELSE Log(r0, "Failed to create channel", name)
           next == AfterChannel(run.idx, ok)
           settings ==
             IF r.created[ConsoleName] # 0
             THEN [guildSettings EXCEPT ![ProvGuild] =
                     WriteConsoleId(guildSettings[ProvGuild],
                                    r.created[ConsoleName])]
             ELSE guildSettings
       IN /\ gCache' = IF ok
                       THEN Append(gCache,
                              [id |-> id, name |-> name, type |-> TextType,
                               sendable |-> TRUE, parent |-> Parent(run)])
                       ELSE gCache
          /\ IF next <= Len(ChannelsToCreate)
             THEN /\ run' = EnterChannel(r, next)
                  /\ written
                  /\ UNCHANGED <<guildSettings, settingsStore>>
             ELSE /\ run' = EnterRole(r, gRoles)
                  /\ guildSettings' = settings
                  /\ settingsStore' =
                       IF r.created[ConsoleName] # 0 /\ written
                       THEN settings ELSE settingsStore
                  /\ (r.created[ConsoleName] = 0 => written)
  /\ UNCHANGED <<gHookTarget, gRoles, gHooks, faults, runsLeft>>
  /\ UNCHANGED <<verifyVars, webVars, resolveVars, storeVars, cmdVars,
                 draftVars, other>>

\* `managerRole = await guild.roles.create(...)` settles
RoleSettles ==
  /\ run.pc = "role"
  /\ \E ok \in Outcomes("role") :
       LET r == Settle(run, "createRole") IN
       /\ gRoles' = IF ok THEN gRoles + 1 ELSE gRoles
       /\ run' = EnterAudit(
                   IF ok
                   THEN Log([r EXCEPT !.managerRole = TRUE], "Created role", "")
                   ELSE Log(r, "Failed to create manager role", ""))
  /\ UNCHANGED <<gCache, gHookTarget, gHooks, guildSettings, settingsStore,
                 faults, runsLeft>>
  /\ UNCHANGED <<verifyVars, webVars, resolveVars, storeVars, cmdVars,
                 draftVars, other>>

\* `const audit = await guild.fetchAuditLogs(...)` settles: it rejects,
\* or resolves without or with a BOT_ADD entry that has an executor
AuditSettles ==
  /\ run.pc = "audit"
  /\ \E ok \in Outcomes("audit"), executor \in Outcomes("audit") :
       LET r == Settle(run, "fetchAuditLogs")
           saved == Saved(guildSettings, ProvGuild)
       IN run' =
            IF ~ok
            THEN EnterSummary(Log(r, "Error fetching audit logs", ""),
                              gCache, saved)
            ELSE IF ~executor
            THEN EnterSummary(Log(r, "No BOT_ADD audit log entry found", ""),
                              gCache, saved)
            ELSE Issue(r, "member", "fetchMember")
  /\ UNCHANGED <<gCache, gHookTarget, gRoles, gHooks, guildSettings,
                 settingsStore, faults, runsLeft>>
  /\ UNCHANGED <<verifyVars, webVars, resolveVars, storeVars, cmdVars,
                 draftVars, other>>

\* `const member = await guild.members.fetch(executorId)` settles
MemberSettles ==
  /\ run.pc = "member"
  /\ \E ok \in Outcomes("fetch") :
       LET r == Settle(run, "fetchMember")
           saved == Saved(guildSettings, ProvGuild)
       IN run' =
            IF ~ok
            THEN EnterSummary(Log(r, "Failed to assign role to adder", ""),
                              gCache, saved)
            ELSE IF r.managerRole
            THEN Issue(r, "grant", "addRole")
            ELSE EnterSummary(Log(r, "Could not assign role", ""),
                              gCache, saved)
  /\ UNCHANGED <<gCache, gHookTarget, gRoles, gHooks, guildSettings,
                 settingsStore, faults, runsLeft>>
  /\ UNCHANGED <<verifyVars, webVars, resolveVars, storeVars, cmdVars,
                 draftVars, other>>

\* `await member.roles.add(managerRole)` settles
GrantSettles ==
  /\ run.pc = "grant"
  /\ \E ok \in Outcomes("grant") :
       run' = EnterSummary(
                Log(Settle(run, "addRole"),
                    IF ok THEN "Assigned role"
                    ELSE "Failed to assign role to adder", ""),
                gCache, Saved(guildSettings, ProvGuild))
  /\ UNCHANGED <<gCache, gHookTarget, gRoles, gHooks, guildSettings,
                 settingsStore, faults, runsLeft>>
  /\ UNCHANGED <<verifyVars, webVars, resolveVars, storeVars, cmdVars,
                 draftVars, other>>

\* `await primaryLogChannel.send({ embeds: [embed] })` settles
EmbedSettles ==
  /\ run.pc = "embed"
  /\ \E ok \in Outcomes("send") :
       LET r == Settle(run, "summary") IN
       run' = IF ok THEN Issue(r, "block", "block")
              ELSE EnterAwaiting(r, gCache, Saved(guildSettings, ProvGuild))
  /\ UNCHANGED <<gCache, gHookTarget, gRoles, gHooks, guildSettings,
                 settingsStore, faults, runsLeft>>
  /\ UNCHANGED <<verifyVars, webVars, resolveVars, storeVars, cmdVars,
                 draftVars, other>>

\* `await primaryLogChannel.send(formatBlock('LOGGING', logLines))` settles
BlockSettles ==
  /\ run.pc = "block"
  /\ \E ok \in Outcomes("send") :
       run' = EnterAwaiting(Settle(run, "block"), gCache,
                            Saved(guildSettings, ProvGuild))
  /\ UNCHANGED <<gCache, gHookTarget, gRoles, gHooks, guildSettings,
                 settingsStore, faults, runsLeft>>
  /\ UNCHANGED <<verifyVars, webVars, resolveVars, storeVars, cmdVars,
                 draftVars, other>>

\* `await statusTarget.send({ embeds: [awaitingEmbed] })` settles:
\* `return { created, managerRole, category }`
AwaitingSettles ==
  /\ run.pc = "awaiting"
  /\ \E ok \in Outcomes("send") : run' = Done(Settle(run, "awaiting"))
  /\ UNCHANGED <<gCache, gHookTarget, gRoles, gHooks, guildSettings,
                 settingsStore, faults, runsLeft>>
  /\ UNCHANGED <<verifyVars, webVars, resolveVars, storeVars, cmdVars,
                 draftVars, other>>

NextSetup ==
  \/ StartRun
  \/ AbortLogSettles
  \/ WarnLogSettles
  \/ WebhookSettles
  \/ CategorySettles
  \/ ChannelSettles
  \/ RoleSettles
  \/ AuditSettles
  \/ MemberSettles
  \/ GrantSettles
  \/ EmbedSettles
  \/ BlockSettles
  \/ AwaitingSettles

\* the settings a guild other than the provisioned one has, and the record
\* of the provisioned guild when it has one: the id of a channel that is
\* gone, and a field the bot does not write
OldSettings == [present |-> TRUE, renderConsoleLogsChannelId |-> 9, extra |-> "x"]

General ==
  [id |-> 1, name |-> GeneralName, type |-> TextType, sendable |-> TRUE,
   parent |-> 0]

\* One run, in which everything can go wrong, on a guild the bot has just
\* joined (a system channel, no role, no settings) or on a guild without a
\* text channel that has the role and a settings record
InitSetup ==
  /\ \/ /\ gCache = <<General>>
        /\ gHookTarget = "system"
        /\ gRoles = 0
        /\ guildSettings = [g \in Guilds |->
                              IF g = ProvGuild THEN NoSettings ELSE OldSettings]
     \/ /\ gCache = <<>>
        /\ gHookTarget = "first"
        /\ gRoles = 1
        /\ guildSettings = [g \in Guilds |-> OldSettings]
  /\ gHooks = 0
  /\ settingsStore = guildSettings
  /\ faults = AllFaults
  /\ runsLeft = 1
  /\ run = IdleRun
  /\ other = IdleRun
  /\ AsideIdle
  /\ VerifyIdle
  /\ WebIdle
  /\ ResolveIdle

SpecSetup == InitSetup /\ [][NextSetup]_vars

\* the same, where every awaited call settles in the end (each request of
\* the client is bound by the timeout of its transport)
SpecSetupFair == InitSetup /\ [][NextSetup]_vars /\ WF_vars(NextSetup)

\* MaxRuns runs one after the other on the same guild, in which nothing
\* fails, or the role creation can, or the bot member and its permissions
\* can be missing
InitRerun ==
  /\ gCache \in {<<>>, <<General>>}
  /\ gHookTarget \in {"system", "first", "none"}
  /\ gRoles \in {0, 1}
  /\ gHooks = 0
  /\ guildSettings \in {[g \in Guilds |-> NoSettings],
                        [g \in Guilds |-> OldSettings]}
  /\ settingsStore = guildSettings
  /\ faults \in {{}, {"role"}, {"member", "perms"}}
  /\ runsLeft = MaxRuns
  /\ run = IdleRun
  /\ other = IdleRun
  /\ AsideIdle
  /\ VerifyIdle
  /\ WebIdle
  /\ ResolveIdle

SpecRerun == InitRerun /\ [][NextSetup]_vars

\* Two runs on the same guild that overlap (the guildCreate listener and
\* `.setup`, or two `.setup` messages).  `run` is the run whose continuation
\* the event loop takes next, `other` the run that stays suspended.  The
\* overlaps followed are those in which the second run is called while the
\* first is suspended at an awaited call, and every call the second awaits
\* settles before that one does.
Switch ==
  /\ \/ run.pc \notin {"idle", "done"} /\ other.pc = "idle"
     \/ run.pc = "done" /\ other.pc \notin {"idle", "done"}
  /\ run' = other
  /\ other' = run
  /\ UNCHANGED <<gCache, gHookTarget, gRoles, gHooks, guildSettings,
                 settingsStore, faults, runsLeft>>
  /\ UNCHANGED <<verifyVars, webVars, resolveVars, storeVars, cmdVars,
                 draftVars>>

NextOverlap ==
  \/ NextSetup
  \/ Switch

\* a guild the bot has just joined, where nothing fails or the bot member
\* and its permissions can be missing
InitOverlap ==
  /\ gCache = <<General>>
  /\ gHookTarget = "system"
  /\ gRoles = 0
  /\ gHooks = 0
  /\ guildSettings = [g \in Guilds |-> NoSettings]
  /\ settingsStore = guildSettings
  /\ faults \in {{}, {"member", "perms"}}
  /\ runsLeft = 2
  /\ run = IdleRun
  /\ other = IdleRun
  /\ AsideIdle
  /\ VerifyIdle
  /\ WebIdle
  /\ ResolveIdle

SpecOverlap == InitOverlap /\ [][NextOverlap]_vars

----------------------------------------------------------------------------
(* The settings store: the load of guildSettings.json at process start, the
   writers of guildSettings and of the file, and a restart.  The file is
   missing, or holds text that does not parse, or the JSON text `null`, or
   a document (settingsStore).  The writers act on the record of ProvGuild. *)

FileKinds == {"missing", "unparsable", "null", "document"}

EmptySettings == [g \in Guilds |-> NoSettings]

\* `guildSettings = JSON.parse(raw)` where raw is `null`: no exception, and
\* guildSettings is null
LoadedNull(kind) == kind = "null"

\* `let guildSettings = {}` unless the file exists and parses
LoadedMapping(kind, doc) == IF kind = "document" THEN doc ELSE EmptySettings

\* the outcome of a write of the settings to the file
FileAfter(kind, doc, writes, raised) ==
  [kind |-> kind, doc |-> doc, writes |-> writes, raised |-> raised]

\* persistGuildSettings of the production draft: writeFileSync in a try
\* whose catch warns
persistGuildSettings(kind, doc, mem, writable) ==
  IF writable THEN FileAfter("document", mem, 1, FALSE)
  ELSE FileAfter(kind, doc, 1, FALSE)

\* persistGuildSettings as the commands of the base draft find it: a
\* function with an empty body
PersistPlaceholder(kind, doc, mem, writable) == FileAfter(kind, doc, 0, FALSE)

\* `fs.writeFileSync(path, JSON.stringify(guildSettings, null, 2))` not
\* inside a try
WriteFileSync(kind, doc, mem, writable) ==
  IF writable THEN FileAfter("document", mem, 1, FALSE)
  ELSE FileAfter(kind, doc, 1, TRUE)

\* `guildSettings[id] = guildSettings[id] || {};
\*  guildSettings[id].prefix = prefix`: the prefix is among the fields of
\* the record other than renderConsoleLogsChannelId
WritePrefix(rec, prefix) ==
  [present |-> TRUE,
   renderConsoleLogsChannelId |->
     IF rec.present THEN rec.renderConsoleLogsChannelId ELSE 0,
   extra |-> prefix]

NewPrefix == "!"
NewChannelIds == {1, 2}

\* the module is loaded: the process starts
LoadSettings ==
  /\ ~proc.up
  /\ proc' = [IdleProc EXCEPT !.up = TRUE, !.op = "load",
                              !.memNull = LoadedNull(fileKind),
                              !.completed = TRUE]
  /\ guildSettings' = LoadedMapping(fileKind, settingsStore)
  /\ UNCHANGED <<fileKind, settingsStore>>
  /\ UNCHANGED <<gCache, gHookTarget, gRoles, gHooks, faults, runsLeft, run,
                 other>>
  /\ UNCHANGED <<verifyVars, webVars, resolveVars, cmdVars, draftVars>>

\* a settings operation on a guildSettings that is null raises at
\* `guildSettings[...]`
OnNull(op) ==
  [proc EXCEPT !.op = op, !.value = 0, !.writes = 0, !.raised = TRUE,
               !.completed = FALSE]

\* a writer has set guildSettings[ProvGuild] to rec and called the write
\* that left the file as after
Written(op, value, rec, writable, after) ==
  /\ guildSettings' = [guildSettings EXCEPT ![ProvGuild] = rec]
  /\ fileKind' = after.kind
  /\ settingsStore' = after.doc
  /\ proc' = [proc EXCEPT !.op = op, !.value = value,
                          !.writable = writable, !.writes = after.writes,
                          !.raised = after.raised,
                          !.completed = ~after.raised]

\* performAutoSetup has created render-console-logs (production draft)
ProvisionWrite ==
  /\ proc.up
  /\ IF proc.memNull
     THEN /\ proc' = OnNull("provision")
          /\ UNCHANGED <<guildSettings, fileKind, settingsStore>>
     ELSE \E id \in NewChannelIds, writable \in BOOLEAN :
            LET rec == WriteConsoleId(guildSettings[ProvGuild], id)
                mem == [guildSettings EXCEPT ![ProvGuild] = rec]
            IN Written("provision", id, rec, writable,
                       persistGuildSettings(fileKind, settingsStore, mem,
                                            writable))
  /\ UNCHANGED <<gCache, gHookTarget, gRoles, gHooks, faults, runsLeft, run,
                 other>>
  /\ UNCHANGED <<verifyVars, webVars, resolveVars, cmdVars, draftVars>>

\* `.setprefix !` in the base draft: botCommands.setprefix
SetPrefixBase ==
  /\ proc.up
  /\ IF proc.memNull
     THEN /\ proc' = OnNull("setprefix (base)")
          /\ UNCHANGED <<guildSettings, fileKind, settingsStore>>
     ELSE \E writable \in BOOLEAN :
            LET rec == WritePrefix(guildSettings[ProvGuild], NewPrefix)
                mem == [guildSettings EXCEPT ![ProvGuild] = rec]
            IN Written("setprefix (base)", NewPrefix, rec, writable,
                       PersistPlaceholder(fileKind, settingsStore, mem,
                                          writable))
  /\ UNCHANGED <<gCache, gHookTarget, gRoles, gHooks, faults, runsLeft, run,
                 other>>
  /\ UNCHANGED <<verifyVars, webVars, resolveVars, cmdVars, draftVars>>

\* `.setprefix !` in part 6 of the mega-bot draft
SetPrefixPart6 ==
  /\ proc.up
  /\ IF proc.memNull
     THEN /\ proc' = OnNull("setprefix (part 6)")
          /\ UNCHANGED <<guildSettings, fileKind, settingsStore>>
     ELSE \E writable \in BOOLEAN :
            LET rec == WritePrefix(guildSettings[ProvGuild], NewPrefix)
                mem == [guildSettings EXCEPT ![ProvGuild] = rec]
            IN Written("setprefix (part 6)", NewPrefix, rec, writable,
                       WriteFileSync(fileKind, settingsStore, mem, writable))
  /\ UNCHANGED <<gCache, gHookTarget, gRoles, gHooks, faults, runsLeft, run,
                 other>>
  /\ UNCHANGED <<verifyVars, webVars, resolveVars, cmdVars, draftVars>>

\* `guildSettings[guild.id]?.renderConsoleLogsChannelId`, as
\* findSendableChannel reads it
ReadSettings ==
  /\ proc.up
  /\ proc' = [proc EXCEPT !.op = "read", !.value = 0, !.writes = 0,
                          !.raised = proc.memNull,
                          !.completed = ~proc.memNull]
  /\ UNCHANGED <<guildSettings, fileKind, settingsStore>>
  /\ UNCHANGED <<gCache, gHookTarget, gRoles, gHooks, faults, runsLeft, run,
                 other>>
  /\ UNCHANGED <<verifyVars, webVars, resolveVars, cmdVars, draftVars>>

\* the process ends; guildSettings is gone with it
ProcessExit ==
  /\ proc.up
  /\ proc' = IdleProc
  /\ guildSettings' = EmptySettings
  /\ UNCHANGED <<fileKind, settingsStore>>
  /\ UNCHANGED <<gCache, gHookTarget, gRoles, gHooks, faults, runsLeft, run,
                 other>>
  /\ UNCHANGED <<verifyVars, webVars, resolveVars, cmdVars, draftVars>>

NextSettings ==
  \/ LoadSettings
  \/ ProvisionWrite
  \/ SetPrefixBase
  \/ SetPrefixPart6
  \/ ReadSettings
  \/ ProcessExit

InitSettings ==
  /\ fileKind \in FileKinds
  /\ settingsStore \in
       IF fileKind = "document"
       THEN {EmptySettings, [g \in Guilds |-> OldSettings]}
       ELSE {EmptySettings}
  /\ guildSettings = EmptySettings
  /\ proc = IdleProc
  /\ gCache = <<>>
  /\ gHookTarget = "none"
  /\ gRoles = 0
  /\ gHooks = 0
  /\ faults = {}
  /\ runsLeft = 0
  /\ run = IdleRun
  /\ other = IdleRun
  /\ CmdIdle
  /\ DraftIdle
  /\ VerifyIdle
  /\ WebIdle
  /\ ResolveIdle

SpecSettings == InitSettings /\ [][NextSettings]_vars

----------------------------------------------------------------------------
(* The command listeners: client.on('messageCreate') of the production
   draft and of parts 2 and 6 of the mega-bot draft.  Each is a listener of
   its own; a message is followed through one of them.  The guild is
   ProvGuild.  `.setup` of the production draft calls performAutoSetup and
   is followed there (StartRun). *)

\* the command words a message is drawn from
Commands ==
  {"help", "ping", "setprefix", "botshutdown", "botrestart", "botcleanup",
   "resetbot", "nosuch"}

\* part 2: the command lists, as far as they hold a word of Commands
miscCommands == {"ping"}
manageCommands == {"setprefix"}
botSettingsCommands == {"setprefix", "resetbot"}

\* `.resetbot`: the names of the channels it deletes
ResetNames ==
  {ConsoleName, ErrorsName, FailedName, StatusName, BotStatusName,
   "bot-settings", "bot-fun", "bot-misc", "bot-management"}

\* `.botcleanup`: c.name.startsWith('render-') || c.name.startsWith('bot-')
\* || c.name.startsWith('system-'), on the channel names of the model
CleanupNames == ProvisionedNames

\* the cache of channels without those of the given names that were
\* deleted: a delete that fails is swallowed
Without(cache, names, failed) ==
  SelectSeq(cache, LAMBDA ch : ch.name \notin names \/ ch.id \in failed)

Ids(cache, names) ==
  {cache[i].id : i \in {j \in 1..Len(cache) : cache[j].name \in names}}

\* a guild as a complete run of performAutoSetup leaves it
ProvisionedCache ==
  <<General,
    [id |-> 2, name |-> "System Services Status", type |-> CategoryType,
     sendable |-> FALSE, parent |-> 0]>> \o
  [i \in 1..Len(ChannelsToCreate) |->
     [id |-> i + 2, name |-> ChannelsToCreate[i], type |-> TextType,
      sendable |-> TRUE, parent |-> 2]]

\* a message arrives at a listener
Received(handler, name, hasRole) ==
  [IdleCmd EXCEPT !.pc = "done", !.handler = handler, !.name = name,
                  !.hasRole = hasRole,
                  !.before = [cache |-> gCache, roles |-> gRoles,
                              settings |-> guildSettings]]

Reply(c, title) == [c EXCEPT !.replies = Append(@, title)]

\* the process takes messages while it runs and no listener is suspended
Listening == cmd.pc \in {"idle", "done"} /\ ~cmd.exited

\* `const managerRole = roles.cache.find(...)`, `if (!managerRole) return
\* message.reply(...)`, `if (!member.roles.cache.has(managerRole.id)) return
\* message.reply(...)`: the title of the denial, "" when the member passes
Gate(roles, hasRole, missingTitle) ==
  IF roles = 0 THEN missingTitle
  ELSE IF ~hasRole THEN "Access Denied"
  ELSE ""

\* the production draft's listener
ProductionMessage ==
  /\ Listening
  /\ \E name \in Commands, hasRole \in BOOLEAN :
       LET c == Received("production", name, hasRole)
           denial == Gate(gRoles, hasRole, "Configuration Missing")
       IN cmd' = IF denial # "" THEN Reply(c, denial)
                 ELSE IF name = "help"
                   THEN Reply(c, "System Services - Help & Information")
                 ELSE IF name = "ping" THEN Reply(Reply(c, "Pinging..."), "Pong!")
                 ELSE Reply(c, "Unknown Command")
  /\ UNCHANGED <<setupVars, storeVars>>
  /\ UNCHANGED <<verifyVars, webVars, resolveVars, draftVars>>

\* part 2 of the mega-bot draft: the listener with the command lists and
\* `.resetbot`
Part2Message ==
  /\ Listening
  /\ \E name \in Commands, hasRole \in BOOLEAN, written \in BOOLEAN,
        failed \in SUBSET Ids(gCache, ResetNames), roleDeleted \in BOOLEAN :
       LET c == Received("part 2", name, hasRole)
           denial == Gate(gRoles, hasRole, "Missing Role")
           mem == [guildSettings EXCEPT ![ProvGuild] =
                     [NoSettings EXCEPT !.present = TRUE]]
           after == persistGuildSettings(fileKind, settingsStore, mem,
                                         written)
       IN IF denial = "" /\ name \notin miscCommands
             /\ name \notin manageCommands /\ name \notin botSettingsCommands
             /\ name = "resetbot"
          THEN /\ gCache' = Without(gCache, ResetNames, failed)
               /\ gRoles' = IF roleDeleted THEN 0 ELSE gRoles
               /\ guildSettings' = mem
               /\ fileKind' = after.kind
               /\ settingsStore' = after.doc
               /\ cmd' = Reply(c, "Bot Reset")
          ELSE /\ (failed = {} /\ ~roleDeleted /\ written)
               /\ cmd' =
                    IF denial # "" THEN Reply(c, denial)
                    ELSE IF name \in miscCommands
                      THEN Reply(c, "Misc Command")
                    ELSE IF name \in manageCommands
                      THEN Reply(c, "Manage Command")
                    ELSE IF name \in botSettingsCommands
                      THEN Reply(c, "Bot Settings Command")
                    ELSE Reply(c, "Unknown Command")
               /\ UNCHANGED <<gCache, gRoles, guildSettings, fileKind,
                              settingsStore>>
  /\ UNCHANGED <<gHookTarget, gHooks, faults, runsLeft, run, other, proc>>
  /\ UNCHANGED <<verifyVars, webVars, resolveVars, draftVars>>

\* part 6 of the mega-bot draft: the listener of the bot commands, up to
\* its first await or its end
Part6Message ==
  /\ Listening
  /\ \E name \in Commands, hasRole \in BOOLEAN, writable \in BOOLEAN,
        failed \in SUBSET Ids(gCache, CleanupNames), roleDeleted \in BOOLEAN :
       LET c == Received("part 6", name, hasRole)
           rec == WritePrefix(guildSettings[ProvGuild], NewPrefix)
           mem == [guildSettings EXCEPT ![ProvGuild] = rec]
           after == WriteFileSync(fileKind, settingsStore, mem, writable)
       IN CASE name = "setprefix" ->
                 /\ failed = {} /\ ~roleDeleted
                 /\ guildSettings' = mem
                 /\ fileKind' = after.kind
                 /\ settingsStore' = after.doc
                 /\ cmd' = IF after.raised THEN [c EXCEPT !.raised = TRUE]
                           ELSE Reply(c, "Prefix Updated")
                 /\ UNCHANGED <<gCache, gRoles>>
            [] name \in {"botrestart", "botshutdown"} ->
                 /\ failed = {} /\ ~roleDeleted /\ writable
                 /\ cmd' = [c EXCEPT !.pc = "exiting"]
                 /\ UNCHANGED <<gCache, gRoles, guildSettings, fileKind,
                                settingsStore>>
            [] name = "botcleanup" ->
                 /\ writable
                 /\ gCache' = Without(gCache, CleanupNames, failed)
                 /\ gRoles' = IF roleDeleted THEN 0 ELSE gRoles
                 /\ cmd' = Reply(c, "Bot Cleanup Complete")
                 /\ UNCHANGED <<guildSettings, fileKind, settingsStore>>
            [] OTHER ->
                 /\ failed = {} /\ ~roleDeleted /\ writable
                 /\ cmd' = c
                 /\ UNCHANGED <<gCache, gRoles, guildSettings, fileKind,
                                settingsStore>>
  /\ UNCHANGED <<gHookTarget, gHooks, faults, runsLeft, run, other, proc>>
  /\ UNCHANGED <<verifyVars, webVars, resolveVars, draftVars>>

\* `await message.reply(...)` of `.botrestart` or `.botshutdown` settles:
\* `process.exit(0)` follows when the reply was sent; a failed reply leaves
\* the listener as an exception
ExitReplySettles ==
  /\ cmd.pc = "exiting"
  /\ \E ok \in BOOLEAN :
       cmd' = IF ok
              THEN [Reply(cmd, IF cmd.name = "botrestart"
                               THEN "Bot Restarting" ELSE "Bot Shutdown")
                      EXCEPT !.pc = "done", !.exited = TRUE]
              ELSE [cmd EXCEPT !.pc = "done", !.raised = TRUE]
  /\ UNCHANGED <<setupVars, storeVars>>
  /\ UNCHANGED <<verifyVars, webVars, resolveVars, draftVars>>

NextCommands ==
  \/ ProductionMessage
  \/ Part2Message
  \/ Part6Message
  \/ ExitReplySettles

\* a guild that was provisioned, or one with its general channel only; the
\* role exists or not; the settings hold a record of the guild or none
InitCommands ==
  /\ gCache \in {<<General>>, ProvisionedCache}
  /\ gRoles \in {0, 1}
  /\ guildSettings \in {EmptySettings, [g \in Guilds |-> OldSettings]}
  /\ settingsStore = guildSettings
  /\ fileKind = "document"
  /\ proc = IdleProc
  /\ gHookTarget = "none"
  /\ gHooks = 0
  /\ faults = {}
  /\ runsLeft = 0
  /\ run = IdleRun
  /\ other = IdleRun
  /\ CmdIdle
  /\ DraftIdle
  /\ VerifyIdle
  /\ WebIdle
  /\ ResolveIdle

SpecCommands == InitCommands /\ [][NextCommands]_vars

----------------------------------------------------------------------------
(* performAutoSetup of the mega-bot draft (part 1), called by the guildCreate
   listener or by the ready listener, on ProvGuild.  The base draft ends the
   same way: the send of the setup log is awaited outside any try. *)

DraftChannelsToCreate ==
  ChannelsToCreate \o <<"bot-settings", "bot-fun", "bot-misc", "bot-management">>

DraftCallers == {"guildCreate", "ready"}

\* `guild => performAutoSetup(guild)` and `for (...) performAutoSetup(guild)`:
\* the promise is dropped, no listener of the draft catches its rejection
CallerCatches(caller) == FALSE

\* the run has settled
DraftReturned(d) == [d EXCEPT !.pc = "done", !.returned = TRUE]
DraftRejected(d) ==
  [d EXCEPT !.pc = "done", !.rejected = TRUE,
            !.unhandled = ~CallerCatches(d.caller)]

\* `let managerRole = guild.roles.cache.find(...); if (!managerRole)
\*  managerRole = await guild.roles.create(...)`
DraftEnterRole(d) == [d EXCEPT !.pc = "role"]

\* `const logCh = created['render-console-logs'] || findSendableChannel(guild);
\*  if (logCh) await logCh.send(...); else logConsoleBlock(...)`
DraftEnterLog(d, cache, saved) ==
  LET logCh == IF d.console # 0 THEN d.console
               ELSE findSendableChannel(cache, saved).id
  IN IF logCh # 0 THEN [d EXCEPT !.pc = "log", !.logCh = logCh]
     ELSE DraftReturned([d EXCEPT !.consoleBlock = TRUE])

\* the listener calls performAutoSetup: `if (!me) return;`, then the
\* category is asked for
DraftStart ==
  /\ dRun.pc = "idle"
  /\ \E caller \in DraftCallers, me \in BOOLEAN :
       dRun' = IF me THEN [dRun EXCEPT !.pc = "category", !.caller = caller]
               ELSE DraftReturned([dRun EXCEPT !.caller = caller])
  /\ UNCHANGED <<setupVars, storeVars, cmdVars>>
  /\ UNCHANGED <<verifyVars, webVars, resolveVars>>

\* `category = await guild.channels.create(...)` settles
DraftCategorySettles ==
  /\ dRun.pc = "category"
  /\ \E ok \in BOOLEAN :
       LET id == Len(gCache) + 1 IN
       /\ gCache' = IF ok
                    THEN Append(gCache,
                           [id |-> id, name |-> "System Services Status",
                            type |-> CategoryType, sendable |-> FALSE,
                            parent |-> 0])
                    ELSE gCache
       /\ dRun' = [dRun EXCEPT !.pc = "channel", !.idx = 1,
                               !.category = IF ok THEN id ELSE 0]
  /\ UNCHANGED <<gHookTarget, gRoles, gHooks, guildSettings, settingsStore,
                 faults, runsLeft, run, other>>
  /\ UNCHANGED <<storeVars, cmdVars>>
  /\ UNCHANGED <<verifyVars, webVars, resolveVars>>

\* `const ch = await guild.channels.create({ name, ... })` settles; after
\* the last one the console channel's id is saved and the role is looked up
DraftChannelSettles ==
  /\ dRun.pc = "channel"
  /\ \E ok \in BOOLEAN, written \in BOOLEAN :
       LET name == DraftChannelsToCreate[dRun.idx]
           id == Len(gCache) + 1
           cache == IF ok
                    THEN Append(gCache,
                           [id |-> id, name |-> name, type |-> TextType,
                            sendable |-> TRUE, parent |-> dRun.category])
                    ELSE gCache
           d == IF ok /\ name = ConsoleName THEN [dRun EXCEPT !.console = id]
                ELSE dRun
           settings ==
             IF d.console # 0
             THEN [guildSettings EXCEPT ![ProvGuild] =
                     WriteConsoleId(guildSettings[ProvGuild], d.console)]
             ELSE guildSettings
       IN /\ gCache' = cache
          /\ IF dRun.idx < Len(DraftChannelsToCreate)
             THEN /\ dRun' = [d EXCEPT !.idx = @ + 1]
                  /\ written
                  /\ UNCHANGED <<guildSettings, settingsStore>>
             ELSE /\ dRun' = IF gRoles = 0 THEN DraftEnterRole(d)
                             ELSE DraftEnterLog(d, cache,
                                                Saved(settings, ProvGuild))
                  /\ guildSettings' = settings
                  /\ settingsStore' = IF d.console # 0 /\ written
                                      THEN settings ELSE settingsStore
                  /\ (d.console = 0 => written)
  /\ UNCHANGED <<gHookTarget, gRoles, gHooks, faults, runsLeft, run, other>>
  /\ UNCHANGED <<storeVars, cmdVars>>
  /\ UNCHANGED <<verifyVars, webVars, resolveVars>>

\* `managerRole = await guild.roles.create(...)` settles
DraftRoleSettles ==
  /\ dRun.pc = "role"
  /\ \E ok \in BOOLEAN :
       gRoles' = IF ok THEN gRoles + 1 ELSE gRoles
  /\ dRun' = DraftEnterLog(dRun, gCache, Saved(guildSettings, ProvGuild))
  /\ UNCHANGED <<gCache, gHookTarget, gHooks, guildSettings, settingsStore,
                 faults, runsLeft, run, other>>
  /\ UNCHANGED <<storeVars, cmdVars>>
  /\ UNCHANGED <<verifyVars, webVars, resolveVars>>

\* `await logCh.send(formatBlock('SETUP LOG', logLines))` settles: the run
\* returns, or the rejection of the send leaves the function
DraftLogSettles ==
  /\ dRun.pc = "log"
  /\ \E ok \in BOOLEAN :
       dRun' = IF ok THEN DraftReturned(dRun) ELSE DraftRejected(dRun)
  /\ UNCHANGED <<setupVars, storeVars, cmdVars>>
  /\ UNCHANGED <<verifyVars, webVars, resolveVars>>

NextDraft ==
  \/ DraftStart
  \/ DraftCategorySettles
  \/ DraftChannelSettles
  \/ DraftRoleSettles
  \/ DraftLogSettles

\* a guild with or without a text channel, with or without the role
InitDraft ==
  /\ gCache \in {<<>>, <<General>>}
  /\ gRoles \in {0, 1}
  /\ guildSettings = EmptySettings
  /\ settingsStore = guildSettings
  /\ gHookTarget = "none"
  /\ gHooks = 0
  /\ faults = {}
  /\ runsLeft = 0
  /\ run = IdleRun
  /\ other = IdleRun
  /\ AsideIdle
  /\ VerifyIdle
  /\ WebIdle
  /\ ResolveIdle

SpecDraft == InitDraft /\ [][NextDraft]_vars

----------------------------------------------------------------------------
(* Claims about verifyRenderWebhook, under SpecVerify *)

SecretConfigured == vSecret.set /\ vSecret.val # <<>>
HeaderGiven == vHeader.present /\ vHeader.val # <<>>
ValidHeaderValues ==
  {ExpectedDigest(vSecret, vBody), Sha256Prefix \o ExpectedDigest(vSecret, vBody)}

\* C1: with a non-empty secret, a header that is the hex digest of the raw
\* body under the secret, sent raw or after 'sha256=', is accepted (the
\* digest being computed, i.e. no crypto call raising).
C1_ValidSignatureAccepted ==
  (vCalled /\ SecretConfigured /\ vFault = "none"
     /\ vHeader.present /\ vHeader.val \in ValidHeaderValues)
    => vResult = Returned(TRUE)

C1_Witness ==
  /\ vCalled /\ SecretConfigured /\ vFault = "none" /\ vBody # <<>>
  /\ vHeader.present
  /\ vHeader.val = Sha256Prefix \o ExpectedDigest(vSecret, vBody)
  /\ vResult = Returned(TRUE)

\* C2: with a non-empty secret, a request is accepted only if its header is
\* the hex digest of the raw body, alone or right after 'sha256=', with
\* nothing before or after it.
C2_OnlyExactDigestAccepted ==
  (vCalled /\ SecretConfigured /\ vResult.value)
    => (vHeader.present /\ vHeader.val \in ValidHeaderValues)

\* C3: without a secret (unset or empty) every request is accepted, whatever
\* its body and header, the header being absent included.
C3_InsecureModeAcceptsAll ==
  (vCalled /\ ~SecretConfigured) => vResult = Returned(TRUE)

C3_Witness ==
  /\ vCalled /\ vSecret.set /\ vSecret.val = <<>>
  /\ ~vHeader.present /\ vBody # <<>>
  /\ vResult = Returned(TRUE)

\* C4: with a non-empty secret, a request whose header is absent or empty is
\* rejected, whatever its body.
C4_MissingHeaderRejected ==
  (vCalled /\ SecretConfigured /\ ~HeaderGiven) => vResult = Returned(FALSE)

C4_Witness ==
  /\ vCalled /\ SecretConfigured /\ ~vHeader.present /\ vBody # <<>>
  /\ vResult = Returned(FALSE)

\* C5: verifyRenderWebhook never raises, and a crypto call raising while the
\* digest is computed or compared makes it return false.
C5_NeverRaises ==
  vCalled =>
    /\ ~vResult.raised
    /\ (SecretConfigured /\ HeaderGiven /\ vFault # "none")
         => vResult = Returned(FALSE)

C5_Witness ==
  /\ vCalled /\ SecretConfigured /\ HeaderGiven /\ vFault = "hmac"
  /\ vHeader.val \in ValidHeaderValues
  /\ vResult = Returned(FALSE)

----------------------------------------------------------------------------
(* Claims about the POST /render-webhook handler, under Spec *)

SendsFor(r) == {m \in sends : m.req = r}

\* C6: a request whose signature verification fails is answered 403, and no
\* message is sent to any channel of any guild for it.
C6_RejectedRequestSendsNothing ==
  \A r \in Requests :
    (reqs[r].pc # "idle" /\ ~reqs[r].verified)
      => /\ reqs[r].pc = "done"
         /\ reqs[r].resp = 403
         /\ SendsFor(r) = {}
         /\ attempts[r] = {}

C6_Witness ==
  /\ secret.set
  /\ \E r \in Requests : reqs[r].pc = "done" /\ ~reqs[r].verified
                         /\ reqs[r].resp = 403
  /\ \E g \in Guilds : channels[g] = ChannelNames

\* C7: a request that passes verification is answered 200, whatever subset
\* of the per-guild deliveries fails, all of them included.
C7_AcceptedRequestAnswered200 ==
  \A r \in Requests :
    (reqs[r].verified /\ reqs[r].pc = "done") => reqs[r].resp = 200

C7_Witness ==
  \E r \in Requests :
    /\ reqs[r].verified /\ reqs[r].pc = "done" /\ reqs[r].resp = 200
    /\ reqs[r].failed = NumGuilds
    /\ SendsFor(r) # {}

\* C8: a failed delivery in one guild does not stop the loop: once an
\* accepted request is answered, dispatchRenderEventToGuild has been called
\* for every known guild, and every guild with a render-console-logs channel
\* has had a send issued for an event whose type is a string or absent.
C8_EveryGuildAttempted ==
  \A r \in Requests :
    (reqs[r].verified /\ reqs[r].pc = "done")
      => /\ attempts[r] = Guilds
         /\ reqs[r].payload.kind # "other"
              => \A g \in Guilds :
                   ConsoleName \in channels[g]
                     => \E m \in SendsFor(r) : m.guild = g

C8_Witness ==
  \E r \in Requests :
    /\ reqs[r].verified /\ reqs[r].pc = "awaitPrimary"
    /\ reqs[r].idx = NumGuilds
    /\ reqs[r].failed = NumGuilds - 1
    /\ reqs[r].failed > 0

----------------------------------------------------------------------------
(* Claims about dispatchRenderEventToGuild, under SpecDispatch *)

\* the type contains w, ignoring case
ContainsIgnoringCase(type, w) ==
  \E i \in 1..Len(type) :
    /\ i + Len(w) - 1 <= Len(type)
    /\ \A j \in 1..Len(w) : LowerChar(type[i + j - 1]) = w[j]

FailureEvent(payload) ==
  /\ payload.kind = "string"
  /\ \E w \in {FailWord, ErrorWord, CrashWord} :
       ContainsIgnoringCase(payload.type, w)

\* the channel the claim routes the embed to
RoutedChannel(payload, g) ==
  IF FailureEvent(payload)
  THEN IF ErrorsName \in channels[g] THEN {ErrorsName}
       ELSE IF StatusName \in channels[g] THEN {StatusName} ELSE {}
  ELSE IF StatusName \in channels[g] THEN {StatusName}
       ELSE IF ConsoleName \in channels[g] THEN {ConsoleName} ELSE {}

DispatchEntered == 1 \in attempts[1]
DispatchOver == reqs[1].idx > 1
WellTyped == reqs[1].payload.kind # "other"

\* C9: for an event whose type is a string or absent, the dispatcher treats
\* the event as a failure exactly when its type contains 'fail', 'error' or
\* 'crash' ignoring case, and sends the embed to exactly one channel:
\* render-errors else render-status for a failure, render-status else
\* render-console-logs otherwise.
C9_ClassifiedAndRouted ==
  (DispatchEntered /\ WellTyped)
    => /\ reqs[1].isError = FailureEvent(reqs[1].payload)
       /\ {m.channel : m \in {n \in sends : n.kind = "embed"}}
            = RoutedChannel(reqs[1].payload, 1)
       /\ Cardinality({n \in sends : n.kind = "embed"}) <= 1

C9_Witness ==
  /\ DispatchOver /\ WellTyped
  /\ reqs[1].payload.type = <<"B", "u", "i", "l", "d", "_", "E", "R", "R", "O", "R">>
  /\ channels[1] = {StatusName, ConsoleName}
  /\ Message(1, 1, StatusName, "embed") \in sends

\* C10: whenever the guild has a console-class channel, the plain-text block
\* of the event is sent to it, also when the send of the embed failed.
C10_ConsoleBlockAlwaysSent ==
  (DispatchOver /\ WellTyped /\ ConsoleName \in channels[1])
    => Message(1, 1, ConsoleName, "block") \in sends


\* C11: a well-typed event dispatched to a guild that has no text channel
\* named render-status, and has another text channel the bot can send to,
\* is delivered to some channel of the guild.
C11_DeliveredToSomeSendableChannel ==
  (/\ DispatchOver
   /\ WellTyped
   /\ StatusName \notin channels[1]
   /\ GeneralName \in channels[1])
    => \E m \in sends : m.guild = 1 /\ m.kind = "embed"

----------------------------------------------------------------------------
(* The channel resolver *)

InCache(ch) == \E i \in 1..Len(rCache) : rCache[i] = ch

\* the channel of the cached id is there, is a text channel and can be
\* sent to
CachedValid ==
  \E i \in 1..Len(rCache) :
    /\ rCache[i].id = rSaved
    /\ rCache[i].type = TextType
    /\ rCache[i].sendable

NamedSendable(ch) ==
  ch.name = ConsoleName /\ ch.type = TextType /\ ch.sendable

\* C12: findSendableChannel returns the channel of the cached id when that
\* channel is a text channel the bot can send to; otherwise a text channel
\* named render-console-logs the bot can send to, when there is one;
\* otherwise any text channel the bot can send to; null only when the guild
\* has none; and whatever it returns is a text channel of the guild's cache
\* that the bot can send to.
C12_ResolverCascade ==
  rCalled =>
    /\ (rResult # NoChannel =>
          InCache(rResult) /\ rResult.type = TextType /\ rResult.sendable)
    /\ IF CachedValid THEN rResult.id = rSaved
       ELSE IF \E i \in 1..Len(rCache) : NamedSendable(rCache[i])
       THEN NamedSendable(rResult)
       ELSE IF \E i \in 1..Len(rCache) :
                 rCache[i].type = TextType /\ rCache[i].sendable
       THEN rResult # NoChannel
       ELSE rResult = NoChannel

\* the cached id is that of a channel that can no longer be sent to, the
\* first text channel is not the named one, and the named one is returned
C12_Witness ==
  /\ rCalled
  /\ rSaved = 1
  /\ Len(rCache) = 2
  /\ ~rCache[1].sendable
  /\ rCache[1].name = ConsoleName
  /\ rResult = rCache[2]

\* C13: when the channel of the cached id no longer has the name
\* render-console-logs and another text channel of that name can be sent
\* to, the resolver returns the latter.
C13_RenamedCachedChannelSkipped ==
  (/\ rCalled
   /\ \E i \in 1..Len(rCache) :
        rCache[i].id = rSaved /\ rCache[i].name # ConsoleName
   /\ \E i \in 1..Len(rCache) :
        rCache[i].id # rSaved /\ NamedSendable(rCache[i]))
    => (rResult.id # rSaved /\ NamedSendable(rResult))


----------------------------------------------------------------------------
(* The provisioner *)

Issued(call) ==
  \E i \in 1..Len(run.trace) : run.trace[i] = <<"issue", call>>

Logged(text) ==
  \E i \in 1..Len(run.logLines) : run.logLines[i].text = text

\* the run returned early for want of the bot's own member
Aborted == Logged("Failed to get bot member info; aborting setup.")

RunOver == run.pc = "done"

\* every step of the workflow was attempted: the webhook where a channel for
\* it was found, the category, the five channels, the role unless it was
\* found, the audit-log fetch
EveryStepAttempted ==
  /\ Issued("createWebhook") \/ Logged("No suitable channel to create webhook.")
  /\ Issued("createCategory")
  /\ \A n \in {"render-console-logs", "render-errors", "render-failed",
               "render-status", "bot-status"} : Issued(n)
  /\ Issued("createRole") \/ Logged("Manager role already exists")
  /\ Issued("fetchAuditLogs")

\* C14: whatever is missing or fails, a run of performAutoSetup never raises
\* and returns in the end, and unless it returned at once for want of the
\* bot's member, it has by then attempted every step.
C14_SetupAlwaysCompletes ==
  /\ [](~run.raised)
  /\ <>RunOver
  /\ []((RunOver /\ ~Aborted) => EveryStepAttempted)

\* a run in which the webhook, the category, a channel, the role and the
\* audit-log fetch all failed, returned
C14_Witness ==
  /\ RunOver
  /\ ~run.raised
  /\ Logged("Failed to create webhook")
  /\ Logged("Failed to create category")
  /\ Logged("Failed to create channel")
  /\ Logged("Failed to create manager role")
  /\ Logged("Error fetching audit logs")
  /\ EveryStepAttempted

LinesFor(n) == {i \in 1..Len(run.logLines) : run.logLines[i].name = n}

InGuild(id, n) ==
  \E i \in 1..Len(gCache) :
    gCache[i].id = id /\ gCache[i].name = n /\ gCache[i].type = TextType

\* C15: once a run that was not aborted is over, each of the five channels
\* was attempted, the role creation was attempted unless the role was
\* found, and the log holds exactly one line for each of the five names:
\* the success line when the channel was created, the failure line when
\* it was not.
C15_ChannelsIndependent ==
  (RunOver /\ ~Aborted) =>
    /\ \A n \in {"render-console-logs", "render-errors", "render-failed",
                 "render-status", "bot-status"} :
         /\ Issued(n)
         /\ Cardinality(LinesFor(n)) = 1
         /\ \A i \in LinesFor(n) :
              IF run.created[n] # 0
              THEN /\ run.logLines[i].text = "Created channel"
                   /\ InGuild(run.created[n], n)
              ELSE run.logLines[i].text = "Failed to create channel"
    /\ Issued("createRole") \/ run.before.roles > 0

\* the creation of render-errors failed, the other four channels were
\* created and the role creation was issued
C15_Witness ==
  /\ RunOver
  /\ run.created["render-errors"] = 0
  /\ \A n \in {"render-console-logs", "render-failed", "render-status",
               "bot-status"} : run.created[n] # 0
  /\ Issued("render-errors")
  /\ Issued("createRole")

\* C16: a run that found the role issues no role creation and uses the role
\* it found, and the guild never has more than one role of that name.
C16_RoleCreatedAtMostOnce ==
  /\ gRoles <= 1
  /\ run.before.roles > 0 =>
       /\ ~Issued("createRole")
       /\ (RunOver /\ ~Aborted) => run.managerRole

\* the last of the runs found the role an earlier run had created
C16_Witness ==
  /\ runsLeft = 0
  /\ RunOver
  /\ run.before.roles = 1
  /\ gRoles = 1
  /\ run.managerRole
  /\ Logged("Manager role already exists")
  /\ Logged("Assigned role")

Count(cache, n, type) ==
  Cardinality({i \in 1..Len(cache) : cache[i].name = n /\ cache[i].type = type})

\* the run found the category, the five channels and the webhook
Provisioned(cache, hooks) ==
  /\ hooks >= 1
  /\ Count(cache, "System Services Status", CategoryType) >= 1
  /\ \A n \in ProvisionedNames : Count(cache, n, TextType) >= 1

\* C17: a run on a guild that already has the category, the five channels
\* and the webhook leaves the number of categories, of channels of each
\* provisioned name and of webhooks as it found them.
C17_RerunCreatesNothingNew ==
  (RunOver /\ Provisioned(run.before.cache, run.before.hooks)) =>
    /\ gHooks = run.before.hooks
    /\ Count(gCache, "System Services Status", CategoryType)
         = Count(run.before.cache, "System Services Status", CategoryType)
    /\ \A n \in ProvisionedNames :
         Count(gCache, n, TextType) = Count(run.before.cache, n, TextType)

\* the place of a remote call in the order of the workflow
Rank(call) ==
  CASE call = "log" -> 0
    [] call = "createWebhook" -> 1
    [] call = "createCategory" -> 2
    [] call = "render-console-logs" -> 3
    [] call = "render-errors" -> 4
    [] call = "render-failed" -> 5
    [] call = "render-status" -> 6
    [] call = "bot-status" -> 7
    [] call = "createRole" -> 8
    [] call = "fetchAuditLogs" -> 9
    [] call = "fetchMember" -> 10
    [] call = "addRole" -> 11
    [] call = "summary" -> 12
    [] call = "block" -> 13
    [] OTHER -> 14

\* C18: the remote calls of a run are issued in the order webhook, category,
\* the five channels in the order of the list, role creation, role
\* assignment, summary, and none is issued before the one issued before
\* it has settled.
C18_FixedOrder ==
  \A j \in 1..Len(run.trace) :
    run.trace[j][1] = "issue" =>
      \A i \in 1..(j - 1) :
        run.trace[i][1] = "issue" =>
          /\ Rank(run.trace[i][2]) < Rank(run.trace[j][2])
          /\ \E k \in (i + 1)..(j - 1) :
               run.trace[k] = <<"settle", run.trace[i][2]>>

\* a run that issued every remote call there is, from the webhook to the
\* post of "Awaiting Commands"
C18_Witness ==
  /\ RunOver
  /\ \A c \in {"createWebhook", "createCategory", "render-console-logs",
               "render-errors", "render-failed", "render-status",
               "bot-status", "createRole", "fetchAuditLogs", "fetchMember",
               "addRole", "summary", "block", "awaiting"} : Issued(c)

\* the text channels the run has created
CreatedByRun ==
  IF run.pc = "idle" THEN {}
  ELSE {i \in (Len(run.before.cache) + 1)..Len(gCache) :
          gCache[i].type = TextType}

\* C19 (as amended): every text channel a run creates is a child of the
\* category that run created when the creation of the category succeeded,
\* and has no parent when it failed.
C19_ParentIsOwnCategoryIfCreated ==
  \A i \in CreatedByRun : gCache[i].parent = run.category

\* the category and the five channels were created
C19_Witness ==
  /\ RunOver
  /\ run.category # 0
  /\ Cardinality(CreatedByRun) = 5
  /\ \A i \in CreatedByRun : gCache[i].parent = run.category

\* C19 (as stated): every text channel a run creates is a child of the
\* category created by that run.
C19_ParentIsOwnCategory ==
  \A i \in CreatedByRun :
    /\ run.category # 0
    /\ gCache[i].parent = run.category

\* C20: once a run is over, if it created render-console-logs the record of
\* its guild holds the id of that channel, keeps its other field, and the
\* records of the other guilds are as the run found them; if it did not,
\* guildSettings and the settings file are as the run found them.
C20_SettingsFrame ==
  RunOver =>
    IF run.created["render-console-logs"] # 0
    THEN /\ guildSettings[ProvGuild].present
         /\ guildSettings[ProvGuild].renderConsoleLogsChannelId
              = run.created["render-console-logs"]
         /\ run.created["render-console-logs"] > Len(run.before.cache)
         /\ InGuild(run.created["render-console-logs"], "render-console-logs")
         /\ guildSettings[ProvGuild].extra
              = run.before.settings[ProvGuild].extra
         /\ \A g \in Guilds \ {ProvGuild} :
              guildSettings[g] = run.before.settings[g]
    ELSE /\ guildSettings = run.before.settings
         /\ settingsStore = run.before.store

\* the guild had a record with another field and the id of a channel that
\* is gone; the run created render-console-logs
C20_Witness ==
  /\ RunOver
  /\ run.before.settings[ProvGuild].present
  /\ run.before.settings[ProvGuild].extra = "x"
  /\ run.created["render-console-logs"] # 0
  /\ guildSettings[ProvGuild].renderConsoleLogsChannelId
       # run.before.settings[ProvGuild].renderConsoleLogsChannelId


----------------------------------------------------------------------------
(* The settings store *)

Mutated ==
  /\ proc.op \in {"provision", "setprefix (base)", "setprefix (part 6)"}
  /\ ~proc.memNull

\* the record of the guild holds what the last operation stored
MutationKept ==
  /\ guildSettings[ProvGuild].present
  /\ IF proc.op = "provision"
     THEN guildSettings[ProvGuild].renderConsoleLogsChannelId = proc.value
     ELSE guildSettings[ProvGuild].extra = proc.value

\* C21: after a write to a guild's settings during which the file could be
\* written, a load of the file returns a mapping that equals guildSettings,
\* in which the guild's record holds what was written.
C21_SettingsRoundTrip ==
  (proc.up /\ Mutated /\ proc.writable) =>
    /\ ~LoadedNull(fileKind)
    /\ LoadedMapping(fileKind, settingsStore) = guildSettings
    /\ MutationKept

\* C22: when the file cannot be written during a write to a guild's
\* settings, guildSettings keeps what was written, no exception leaves the
\* operation, which runs to its end, and the file write is attempted at
\* most once.
C22_PersistFailureContained ==
  (proc.up /\ Mutated /\ ~proc.writable) =>
    /\ MutationKept
    /\ ~proc.raised
    /\ proc.completed
    /\ proc.writes <= 1

\* C23: whatever the file is, the load does not raise and leaves a mapping,
\* which is empty when the file is missing or does not parse, and a read of
\* a guild's record after the load does not raise.
C23_LoadYieldsMapping ==
  proc.up =>
    /\ ~proc.memNull
    /\ (proc.op = "load" /\ fileKind \in {"missing", "unparsable"})
         => guildSettings = EmptySettings
    /\ proc.op \in {"load", "read"} => ~proc.raised

----------------------------------------------------------------------------
(* Claims about the command listeners *)

DenialTitles == {"Configuration Missing", "Missing Role", "Access Denied"}

\* the member who sent the message is not authorised: the role does not
\* exist in the guild, or the member does not have it
Unauthorised ==
  /\ cmd.pc # "idle"
  /\ (cmd.before.roles = 0 \/ ~cmd.hasRole)

\* C24: a prefixed command sent by a member without the manager role, or
\* in a guild where the role does not exist, has no effect other than a
\* denial reply: every reply is a denial, the settings, the channels and
\* the role are as the message found them, and the process keeps running.
C24_ManagerRoleGatesEveryCommand ==
  Unauthorised =>
    /\ \A i \in 1..Len(cmd.replies) : cmd.replies[i] \in DenialTitles
    /\ guildSettings = cmd.before.settings
    /\ gCache = cmd.before.cache
    /\ gRoles = cmd.before.roles
    /\ ~cmd.exited

\* C27: `.resetbot` sent by a manager (mega-bot draft, part 2) is answered
\* with 'Bot Reset', and by then no channel with one of the nine
\* provisioned names and no manager role is left in the guild, and the
\* guild's settings record is empty, in memory and in the file.
C27_ResetBotRemovesEverything ==
  (/\ cmd.handler = "part 2" /\ cmd.name = "resetbot" /\ cmd.pc = "done"
   /\ cmd.before.roles > 0 /\ cmd.hasRole) =>
    /\ cmd.replies = <<"Bot Reset">>
    /\ Ids(gCache, ResetNames) = {}
    /\ gRoles = 0
    /\ guildSettings[ProvGuild] = [NoSettings EXCEPT !.present = TRUE]
    /\ settingsStore = guildSettings
----------------------------------------------------------------------------
(* Claims about a webhook request from end to end *)

\* the messages sent for request r to the channel of that name of guild g
SentTo(r, g, name) == {m \in SendsFor(r) : m.guild = g /\ m.channel = name}

\* request r is an accepted failure event, g is a guild with the three
\* channels of a complete provisioning, and the dispatch to g has returned
\* true (both sends were delivered)
FailureDelivered(r, g) ==
  /\ reqs[r].verified
  /\ reqs[r].payload = [kind |-> "string", type |-> DeployFailed]
  /\ channels[g] = ChannelNames
  /\ reqs[r].idx > g
  /\ reqs[r].failed = 0

\* a send is issued by this step for request r
Sending(r) ==
  /\ reqs'[r].pc \in {"awaitPrimary", "awaitConsole"}
  /\ reqs'[r].pc # reqs[r].pc

Sent(r) ==
  Message(r, reqs'[r].idx,
          IF reqs'[r].pc = "awaitPrimary" THEN reqs'[r].target
          ELSE ConsoleName,
          IF reqs'[r].pc = "awaitPrimary" THEN "embed" ELSE "block")

\* C25: for a guild on which provisioning fully succeeded, an accepted
\* failure event makes render-errors receive the embed and
\* render-console-logs the plain-text block, render-status receives nothing
\* for it, and no message of a request is sent a second time.
C25_FailureEventEndToEnd ==
  /\ [](\A r \in Requests, g \in Guilds :
          FailureDelivered(r, g) =>
            /\ SentTo(r, g, ErrorsName) = {Message(r, g, ErrorsName, "embed")}
            /\ SentTo(r, g, ConsoleName) = {Message(r, g, ConsoleName, "block")}
            /\ SentTo(r, g, StatusName) = {})
  /\ [][\A r \in Requests : Sending(r) => Sent(r) \notin sends]_vars

C25_Witness ==
  /\ reqs[1].pc = "done" /\ reqs[1].resp = 200
  /\ FailureDelivered(1, 1)
  /\ SentTo(1, 1, ErrorsName) = {Message(1, 1, ErrorsName, "embed")}
  /\ SentTo(1, 1, ConsoleName) = {Message(1, 1, ConsoleName, "block")}
\* C30: every request is answered, once, with 200, 403 or 500; 200 only
\* when the verification passed and the dispatch to every guild has been
\* awaited; once the response is sent it does not change, and nothing more
\* is sent or attempted for the request.
C30_OneResponseAfterDelivery ==
  /\ [](\A r \in Requests :
          /\ reqs[r].resp \in {0, 200, 403, 500}
          /\ (reqs[r].pc = "done") <=> (reqs[r].resp # 0)
          /\ reqs[r].resp = 200 =>
               /\ reqs[r].verified
               /\ attempts[r] = Guilds
               /\ reqs[r].idx > NumGuilds)
  /\ [][\A r \in Requests :
          reqs[r].resp # 0 =>
            /\ reqs'[r] = reqs[r]
            /\ SendsFor(r)' = SendsFor(r)
            /\ attempts'[r] = attempts[r]]_vars
  /\ \A r \in Requests : (reqs[r].pc # "idle") ~> (reqs[r].resp # 0)

C30_Witness ==
  /\ reqs[1].resp = 200
  /\ attempts[1] = Guilds
  /\ Cardinality(SendsFor(1)) = 2 * NumGuilds
\* C26: with no secret configured, the warning that the secret is not
\* configured is emitted at most once in a process lifetime, however many
\* requests arrive.
C26_WarnedAtMostOnce ==
  SecretMissing(secret) => secretWarnings <= 1
----------------------------------------------------------------------------
(* Claims about performAutoSetup of the earlier drafts *)

\* C28: a failure of the final send of the setup log does not make
\* performAutoSetup raise: a run called by the guildCreate or the ready
\* listener ends by returning, and no rejection is left unhandled.
C28_SetupLogFailureContained ==
  dRun.pc = "done" =>
    /\ dRun.returned
    /\ ~dRun.rejected
    /\ ~dRun.unhandled
----------------------------------------------------------------------------
(* Claims about overlapping runs of performAutoSetup *)

\* the roles the run r has created
RolesCreatedBy(r) ==
  Cardinality({i \in 1..Len(r.logLines) : r.logLines[i].text = "Created role"})

\* the render-console-logs channels the two runs have created
ConsolesCreated == {run.created[ConsoleName], other.created[ConsoleName]} \ {0}

\* C29: when two runs on the same guild that overlapped at their awaited
\* calls are both over, together they have created at most one manager
\* role, and the cached renderConsoleLogsChannelId is the id of a
\* render-console-logs channel that one of them created.
C29_OverlappingRunsConverge ==
  (run.pc = "done" /\ other.pc = "done") =>
    /\ RolesCreatedBy(run) + RolesCreatedBy(other) <= 1
    /\ gRoles <= 1
    /\ ConsolesCreated # {} =>
         Saved(guildSettings, ProvGuild) \in ConsolesCreated

====
